---- MODULE Spec2Model ----
(***************************************************************************)
(* AwsGuard: the policy registration table, the resolution of the user's   *)
(* configuration into the list of active policies, and the construction of *)
(* the policy pack.                                                        *)
(*                                                                         *)
(* Two revisions of awsGuard.ts are modelled, each by its own              *)
(* specification over its own table:                                       *)
(*   Spec           the revision that registers policy objects             *)
(*                  (registeredPolicies, getInitialConfig);                *)
(*   SpecFactories  the revision that registers policy factories           *)
(*                  (factoryMap, getPolicies);                             *)
(*   SpecFactoryArgs  getPolicies of that revision over the factories that *)
(*                  check their argument bag, with the objects it writes   *)
(*                  to and the factories it calls.                         *)
(* Two more specifications cover what is called on its own:                *)
(*   SpecUtil       the helpers getValueOrDefault and getNameAndArgs;      *)
(*   SpecRunner     the validation runner of the tests and the             *)
(*                  validations of the policies it runs.                   *)
(***************************************************************************)
EXTENDS Naturals, Sequences, FiniteSets, TLC

VARIABLES
    registeredPolicies, \* awsGuard.ts: Record<string, policy>, in insertion order
    factoryMap,         \* factory revision: Record<string, PolicyFactory>, in insertion order
    registrations,      \* number of registerPolicy calls that returned normally
    call,               \* the last call made: its operation, inputs and outcome
    runner,             \* the validation runner: where it is, what it runs, its outcome
    frames,             \* the activations of the validations the runner has called
    violations          \* the runner's array of reported violations

vars == <<registeredPolicies, factoryMap, registrations, call, runner, frames, violations>>

\* Largest number of entries a registration table grows to.
MaxRules == 2

(***************************************************************************)
(* JavaScript values.  Every value is a record tagged with its typeof-like *)
(* kind, so that values of different kinds can be compared.  An object is  *)
(* its sequence of own properties [key, value] in insertion order, which   *)
(* is the order Object.keys returns.                                       *)
(***************************************************************************)
Undefined == [t |-> "undefined"]
Null == [t |-> "null"]
Str(s) == [t |-> "string", v |-> s]
Bool(b) == [t |-> "boolean", b |-> b]
Obj(entries) == [t |-> "object", entries |-> entries]
Fn(name) == [t |-> "function", name |-> name]
Arr(items) == [t |-> "array", items |-> items]
Num(n) == [t |-> "number", n |-> n]

\* ToBoolean: undefined, null, "", false and 0 are falsy.
Truthy(x) == /\ x.t \notin {"undefined", "null"}
             /\ x # Str("")
             /\ x # Bool(FALSE)
             /\ x # Num(0)

\* typeof x
TypeOf(x) == CASE x.t = "null" -> "object"
               [] OTHER -> x.t

Prop(k, v) == [key |-> k, value |-> v]
KeySet(entries) == {entries[i].key : i \in 1..Len(entries)}
HasOwnProperty(entries, k) == k \in KeySet(entries)

\* o[k] for an own property, undefined otherwise.
Get(entries, k) ==
    IF HasOwnProperty(entries, k)
    THEN entries[CHOOSE i \in 1..Len(entries) : entries[i].key = k].value
    ELSE Undefined

\* o[k] = v: an existing property keeps its place, a new one goes last.
Put(entries, k, v) ==
    IF HasOwnProperty(entries, k)
    THEN [i \in 1..Len(entries) |-> IF entries[i].key = k THEN Prop(k, v) ELSE entries[i]]
    ELSE Append(entries, Prop(k, v))

\* Properties every object inherits from Object.prototype.
ObjectPrototypeKeys == {"toString", "constructor", "hasOwnProperty"}

\* k in o: own or inherited.
In(entries, k) == HasOwnProperty(entries, k) \/ k \in ObjectPrototypeKeys

\* o[k] on a plain object: own, then inherited (a function named k).
Read(entries, k) ==
    IF HasOwnProperty(entries, k) THEN Get(entries, k)
    ELSE IF k \in ObjectPrototypeKeys THEN Fn(k)
    ELSE Undefined

(***************************************************************************)
(* Enforcement levels.                                                     *)
(***************************************************************************)
defaultEnforcementLevel == Str("mandatory")

isEnforcementLevel(o) == o \in {Str("advisory"), Str("mandatory"), Str("disabled")}

\* No error was thrown.
NoError == "none"

(***************************************************************************)
(* The inputs the calls are made with.                                     *)
(***************************************************************************)
\* Keys registerPolicy is called with.
RegistrationKeys == {"", "all", "toString", "ec2InstanceNoPublicIP", "ec2VolumeInUse"}

\* Array.prototype.sort's order (by UTF-16 code unit) on the keys a table can hold.
SortedKeys ==
    <<"", "ec2InstanceNoPublicIP", "ec2VolumeInUse", "iamAccessKeysRotated",
      "rdsInstanceBackupEnabled">>

\* Marks a property left out of an object literal.
Absent == [t |-> "absent"]
Entry(k, v) == IF v = Absent THEN <<>> ELSE <<Prop(k, v)>>

\* Values given for `all`: absent, falsy, the three levels, an invalid level.
AllChoices ==
    {Absent, Null, Str(""),
     Str("mandatory"), Str("advisory"), Str("disabled"), Str("bogus")}

\* Per-rule overrides given as an object: { enforcementLevel?, checkDeletion? }.
ObjectOverrides ==
    {Obj(<<Prop("enforcementLevel", Str("advisory"))>>),
     Obj(<<Prop("enforcementLevel", Str("disabled"))>>),
     Obj(<<Prop("enforcementLevel", Str("bogus"))>>),
     Obj(<<Prop("checkDeletion", Bool(FALSE))>>),
     Obj(<<Prop("enforcementLevel", Str("advisory")), Prop("checkDeletion", Bool(FALSE))>>)}

\* Per-rule overrides: absent, a bare level, an invalid level, an object.
OverrideChoices ==
    {Absent, Str("mandatory"), Str("advisory"), Str("disabled"), Str("bogus")}
        \cup ObjectOverrides

\* The args objects that name the two rules.
RuleArgsObjects ==
    {Obj(Entry("all", a) \o Entry("ec2InstanceNoPublicIP", x) \o Entry("ec2VolumeInUse", y)) :
        a \in AllChoices, x \in OverrideChoices, y \in OverrideChoices}

\* args objects with at most one property.
SmallArgsObjects == {a \in RuleArgsObjects : Len(a.entries) <= 1}

\* args objects with a key that names no rule.
UnknownKeyArgsObjects ==
    {Obj(a.entries \o <<Prop("notARule", Str("advisory"))>>) : a \in SmallArgsObjects}

\* args objects whose `all` is given as undefined or false, with at most one rule named.
FalsyAllArgsObjects ==
    {Obj(<<Prop("all", a)>> \o Entry("ec2InstanceNoPublicIP", x) \o Entry("ec2VolumeInUse", y)) :
        a \in {Undefined, Bool(FALSE)},
        x \in OverrideChoices, y \in {Absent, Str("advisory"), Str("disabled")}}

ArgsObjects == RuleArgsObjects \cup UnknownKeyArgsObjects \cup FalsyAllArgsObjects

\* What getPolicies is given as args.
ArgsChoices == {Undefined, Null} \cup ArgsObjects

\* What getInitialConfig and the constructor are given as args.
ConfigArgsChoices ==
    {Undefined, Null} \cup SmallArgsObjects \cup UnknownKeyArgsObjects
        \cup {Obj(<<Prop("toString", Str("advisory"))>>)}
        \cup {a \in RuleArgsObjects :
                \A i \in 1..Len(a.entries) :
                    a.entries[i].value \in {Str("advisory"), Str("disabled"), Str("")}}

(***************************************************************************)
(* awsGuard.ts: the table of policy objects.                               *)
(***************************************************************************)
\* compute.ts: the registered policy objects (their name is all the table reads).
ec2InstanceNoPublicIPPolicy == [t |-> "object", name |-> "ec2-instance-no-public-ip"]
ec2VolumeInUsePolicy == [t |-> "object", name |-> "ec2-volume-inuse"]

PolicyChoices == {ec2InstanceNoPublicIPPolicy, ec2VolumeInUsePolicy, Undefined}

defaultPolicyPackName == "pulumi-awsguard"

\* registerPolicy with the duplicate check left out: the assignment overwrites.
registerPolicy_overwrites(table, property, policy) ==
    IF property = "all" THEN [threw |-> "'all' is reserved.", table |-> table]
    ELSE IF ~Truthy(policy) THEN [threw |-> "policy is falsy.", table |-> table]
    ELSE [threw |-> NoError, table |-> Put(table, property, policy)]

\* registerPolicy with a check that rejects the empty id.
registerPolicy_rejectsEmpty(table, property, policy) ==
    IF property = "all" THEN [threw |-> "'all' is reserved.", table |-> table]
    ELSE IF property = "" THEN [threw |-> "id is empty.", table |-> table]
    ELSE IF In(table, property) THEN [threw |-> "already exists.", table |-> table]
    ELSE IF ~Truthy(policy) THEN [threw |-> "policy is falsy.", table |-> table]
    ELSE [threw |-> NoError, table |-> Put(table, property, policy)]

\* registerPolicy(property, policy): what it throws and the table it leaves.
registerPolicy(table, property, policy) ==
    IF property = "all" THEN [threw |-> "'all' is reserved.", table |-> table]
    ELSE IF In(table, property) THEN [threw |-> "already exists.", table |-> table]
    ELSE IF ~Truthy(policy) THEN [threw |-> "policy is falsy.", table |-> table]
    ELSE [threw |-> NoError, table |-> Put(table, property, policy)]

\* getNameAndArgs with a bare enforcement level read as { all: level }.
getNameAndArgs_levelAsAll(nameOrArgs, args) ==
    IF isEnforcementLevel(nameOrArgs)
    THEN <<defaultPolicyPackName, Obj(<<Prop("all", nameOrArgs)>>)>>
    ELSE IF TypeOf(nameOrArgs) = "string" THEN <<nameOrArgs.v, args>>
    ELSE IF TypeOf(nameOrArgs) = "object" THEN <<defaultPolicyPackName, nameOrArgs>>
    ELSE <<defaultPolicyPackName, args>>

\* getNameAndArgs with a second argument that wins over an object given first.
getNameAndArgs_secondWins(nameOrArgs, args) ==
    IF TypeOf(nameOrArgs) = "string" THEN <<nameOrArgs.v, args>>
    ELSE IF TypeOf(nameOrArgs) = "object" /\ ~Truthy(args) THEN <<defaultPolicyPackName, nameOrArgs>>
    ELSE <<defaultPolicyPackName, args>>

\* getNameAndArgs(nameOrArgs, args): <<name, args>>.
getNameAndArgs(nameOrArgs, args) ==
    IF TypeOf(nameOrArgs) = "string" THEN <<nameOrArgs.v, args>>
    ELSE IF TypeOf(nameOrArgs) = "object" THEN <<defaultPolicyPackName, nameOrArgs>>
    ELSE <<defaultPolicyPackName, args>>

\* The loop of getInitialConfig over Object.keys(args), from the i-th key on.
RECURSIVE getInitialConfigFrom(_, _, _, _)
getInitialConfigFrom(policyMap, entries, i, result) ==
    IF i > Len(entries) THEN result
    ELSE LET key == entries[i].key
             val == entries[i].value
             policy == Read(policyMap, key)
         IN  IF ~Truthy(val)
             THEN getInitialConfigFrom(policyMap, entries, i + 1, result)
             ELSE IF key = "all"
             THEN getInitialConfigFrom(policyMap, entries, i + 1, Put(result, "all", val))
             ELSE IF Truthy(policy)
             THEN getInitialConfigFrom(policyMap, entries, i + 1, Put(result, policy.name, val))
             ELSE getInitialConfigFrom(policyMap, entries, i + 1, result)

\* getInitialConfig(policyMap, args): undefined, or the config keyed by policy name.
getInitialConfig(policyMap, args) ==
    IF ~Truthy(args) THEN Undefined
    ELSE Obj(getInitialConfigFrom(policyMap, args.entries, 1, <<>>))

\* new AwsGuard(nameOrArgs, args): what the constructor hands to PolicyPack.
AwsGuard(table, nameOrArgs, args) ==
    LET na == getNameAndArgs(nameOrArgs, args)
    IN  [name |-> na[1],
         policies |-> [i \in 1..Len(table) |-> table[i].value],
         enforcementLevel |-> defaultEnforcementLevel,
         initialConfig |-> getInitialConfig(table, na[2])]

\* What the constructor's first parameter is given.
NameOrArgsChoices ==
    {Undefined, Null, Str("my-pack"), Str("mandatory"), Str("advisory"), Str("disabled")}
        \cup SmallArgsObjects

\* What the constructor's second parameter is given.
SecondArgsChoices ==
    {Undefined, Obj(<<Prop("all", Str("advisory"))>>), Obj(<<Prop("all", Str("disabled"))>>)}

Init ==
    /\ registeredPolicies = <<>>
    /\ factoryMap = <<>>
    /\ registrations = 0
    /\ call = [op |-> "none", threw |-> NoError]
    /\ runner = [pc |-> "idle"]
    /\ frames = <<>>
    /\ violations = <<>>

\* A module calls registerPolicy(property, policy).
RegisterPolicy ==
    \E property \in RegistrationKeys, policy \in PolicyChoices :
        LET r == registerPolicy(registeredPolicies, property, policy)
        IN  /\ Len(r.table) <= MaxRules
            /\ registeredPolicies' = r.table
            /\ registrations' = IF r.threw = NoError THEN registrations + 1 ELSE registrations
            /\ call' = [op |-> "registerPolicy", property |-> property,
                        policy |-> policy, threw |-> r.threw]
            /\ UNCHANGED <<factoryMap, runner, frames, violations>>

\* getInitialConfig(registeredPolicies, args) is called.
GetInitialConfig ==
    \E args \in ConfigArgsChoices :
        /\ call' = [op |-> "getInitialConfig", args |-> args, threw |-> NoError,
                    result |-> getInitialConfig(registeredPolicies, args)]
        /\ UNCHANGED <<registeredPolicies, factoryMap, registrations, runner, frames, violations>>

\* new AwsGuard(nameOrArgs, args) is called.
NewAwsGuard ==
    \E nameOrArgs \in NameOrArgsChoices, args \in SecondArgsChoices :
        /\ call' = [op |-> "AwsGuard", nameOrArgs |-> nameOrArgs, args |-> args,
                    threw |-> NoError,
                    result |-> AwsGuard(registeredPolicies, nameOrArgs, args)]
        /\ UNCHANGED <<registeredPolicies, factoryMap, registrations, runner, frames, violations>>

Next == RegisterPolicy \/ GetInitialConfig \/ NewAwsGuard

Spec == Init /\ [][Next]_vars

(***************************************************************************)
(* The factory revision of awsGuard.ts: the table of policy factories and  *)
(* getPolicies.                                                            *)
(***************************************************************************)
\* The loop of getValueOrDefault without its test for undefined: every property is assigned.
RECURSIVE assignDefined_all(_, _, _)
assignDefined_all(result, entries, i) ==
    IF i > Len(entries) THEN result
    ELSE assignDefined_all(Put(result, entries[i].key, entries[i].value), entries, i + 1)

\* The loop of getValueOrDefault over Object.keys(args), from the i-th key on.
RECURSIVE assignDefined(_, _, _)
assignDefined(result, entries, i) ==
    IF i > Len(entries) THEN result
    ELSE IF entries[i].value # Undefined
    THEN assignDefined(Put(result, entries[i].key, entries[i].value), entries, i + 1)
    ELSE assignDefined(result, entries, i + 1)

\* getValueOrDefault(args, def): def, overridden by what args defines.
getValueOrDefault(args, def) ==
    IF ~Truthy(args) THEN Obj(def.entries)
    ELSE IF isEnforcementLevel(args) THEN Obj(Put(def.entries, "enforcementLevel", args))
    ELSE IF TypeOf(args) = "object" THEN Obj(assignDefined(def.entries, args.entries, 1))
    ELSE Obj(def.entries)

\* compute.ts: a factory that takes the enforcement level alone.
ec2InstanceNoPublicIP(enforcementLevel) ==
    [name |-> "ec2-instance-no-public-ip",
     enforcementLevel |-> IF Truthy(enforcementLevel) THEN enforcementLevel
                          ELSE defaultEnforcementLevel]

\* compute.ts: a factory that takes the enforcement level or an argument bag.
ec2VolumeInUse(args) ==
    LET r == getValueOrDefault(args,
                Obj(<<Prop("enforcementLevel", defaultEnforcementLevel),
                      Prop("checkDeletion", Bool(TRUE))>>))
    IN  [name |-> "ec2-volume-inuse",
         enforcementLevel |-> Get(r.entries, "enforcementLevel"),
         checkDeletion |-> Get(r.entries, "checkDeletion")]

\* factory(factoryArgs)
CallFactory(factory, factoryArgs) ==
    CASE factory.name = "ec2InstanceNoPublicIP" -> ec2InstanceNoPublicIP(factoryArgs)
      [] factory.name = "ec2VolumeInUse" -> ec2VolumeInUse(factoryArgs)

\* registerPolicy(property, factory) of the factory revision.
registerPolicyFactory(table, property, factory) ==
    IF TypeOf(factory) # "function"
    THEN [threw |-> "'factory' must be a function.", table |-> table]
    ELSE IF property = "all" THEN [threw |-> "'all' is reserved.", table |-> table]
    ELSE IF In(table, property) THEN [threw |-> "already exists.", table |-> table]
    ELSE [threw |-> NoError, table |-> Put(table, property, factory)]

\* Object.keys(factories).sort()
sortedKeys(factories) == SelectSeq(SortedKeys, LAMBDA k : HasOwnProperty(factories, k))

\* effectiveArgs with a falsy `all` read as "disabled".
effectiveArgs_falsyAllDisables(args) ==
    LET a == IF ~Truthy(args) \/ Len(args.entries) = 0
             THEN Obj(<<Prop("all", defaultEnforcementLevel)>>)
             ELSE args
    IN  IF ~HasOwnProperty(a.entries, "all")
        THEN Obj(Put(a.entries, "all", defaultEnforcementLevel))
        ELSE IF ~Truthy(Get(a.entries, "all"))
        THEN Obj(Put(a.entries, "all", Str("disabled")))
        ELSE a

\* The args getPolicies works with: { all: default } for no args, `all` filled in.
effectiveArgs(args) ==
    LET a == IF ~Truthy(args) \/ Len(args.entries) = 0
             THEN Obj(<<Prop("all", defaultEnforcementLevel)>>)
             ELSE args
    IN  IF ~Truthy(Get(a.entries, "all"))
        THEN Obj(Put(a.entries, "all", defaultEnforcementLevel))
        ELSE a

\* factoryArgs without the fall back to args.all: a rule not named is disabled.
factoryArgsOf_noFallback(args, key) ==
    IF HasOwnProperty(args.entries, key) /\ Truthy(Get(args.entries, key))
    THEN Get(args.entries, key)
    ELSE Str("disabled")

\* factoryArgs for a key: the key's own truthy property, else args.all.
factoryArgsOf(args, key) ==
    LET own == IF HasOwnProperty(args.entries, key) THEN Get(args.entries, key) ELSE Undefined
    IN  IF ~Truthy(own) THEN Get(args.entries, "all") ELSE own

\* The test that skips a policy before its factory is called.
skipped(factoryArgs) == isEnforcementLevel(factoryArgs) /\ factoryArgs = Str("disabled")

\* The final filter left out.
filterDisabled_none(policies) == policies

\* policies.filter(p => p.enforcementLevel !== "disabled")
filterDisabled(policies) == SelectSeq(policies, LAMBDA p : p.enforcementLevel # Str("disabled"))

\* getPolicies(factories, args): the policies of the pack, in key order.
getPolicies(factories, args) ==
    LET a == effectiveArgs(args)
        keys == SelectSeq(sortedKeys(factories), LAMBDA k : ~skipped(factoryArgsOf(a, k)))
        policies == [i \in 1..Len(keys) |->
                        CallFactory(Get(factories, keys[i]), factoryArgsOf(a, keys[i]))]
    IN  filterDisabled(policies)

\* The registerPolicy calls made when the rule modules load, and erroneous ones.
FactoryRegistrations ==
    {<<"ec2InstanceNoPublicIP", Fn("ec2InstanceNoPublicIP")>>,
     <<"ec2VolumeInUse", Fn("ec2VolumeInUse")>>,
     <<"all", Fn("ec2InstanceNoPublicIP")>>,
     <<"toString", Fn("ec2VolumeInUse")>>,
     <<"ec2VolumeInUse", Undefined>>}

\* A module calls registerPolicy(property, factory).
RegisterPolicyFactory ==
    \E reg \in FactoryRegistrations :
        LET r == registerPolicyFactory(factoryMap, reg[1], reg[2])
        IN  /\ Len(r.table) <= MaxRules
            /\ factoryMap' = r.table
            /\ registrations' = IF r.threw = NoError THEN registrations + 1 ELSE registrations
            /\ call' = [op |-> "registerPolicy", property |-> reg[1],
                        policy |-> reg[2], threw |-> r.threw]
            /\ UNCHANGED <<registeredPolicies, runner, frames, violations>>

\* getPolicies(factoryMap, args) is called.
GetPolicies ==
    \E args \in ArgsChoices :
        /\ call' = [op |-> "getPolicies", args |-> args, threw |-> NoError,
                    result |-> getPolicies(factoryMap, args)]
        /\ UNCHANGED <<registeredPolicies, factoryMap, registrations, runner, frames, violations>>

NextFactories == RegisterPolicyFactory \/ GetPolicies

SpecFactories == Init /\ [][NextFactories]_vars

(***************************************************************************)
(* The helpers getValueOrDefault and getNameAndArgs, called on their own   *)
(* (SpecUtil).                                                             *)
(***************************************************************************)
\* The defaults the policies and the tests pass to getValueOrDefault.
DefChoices ==
    {Obj(<<Prop("enforcementLevel", defaultEnforcementLevel)>>),
     Obj(<<Prop("enforcementLevel", defaultEnforcementLevel), Prop("checkDeletion", Bool(TRUE))>>),
     Obj(<<Prop("enforcementLevel", Str("mandatory")), Prop("foo", Undefined)>>)}

\* The args getValueOrDefault is given: nothing, a level, an invalid level, an
\* argument bag whose properties are absent, undefined or set.
ValueArgsChoices ==
    {Undefined, Null, Str(""), Str("bogus"), Str("mandatory"), Str("advisory"), Str("disabled")}
        \cup {Obj(Entry("enforcementLevel", e) \o Entry("foo", f) \o Entry("checkDeletion", c)) :
                e \in {Absent, Undefined, Str("advisory"), Str("bogus")},
                f \in {Absent, Undefined, Str("bar")},
                c \in {Absent, Undefined, Bool(FALSE)}}

\* getValueOrDefault(args, def) is called.
GetValueOrDefault ==
    \E args \in ValueArgsChoices, def \in DefChoices :
        /\ call' = [op |-> "getValueOrDefault", args |-> args, def |-> def,
                    threw |-> NoError, result |-> getValueOrDefault(args, def)]
        /\ UNCHANGED <<registeredPolicies, factoryMap, registrations, runner, frames, violations>>

\* getNameAndArgs(nameOrArgs, args) is called.
GetNameAndArgs ==
    \E nameOrArgs \in NameOrArgsChoices, args \in SecondArgsChoices :
        /\ call' = [op |-> "getNameAndArgs", nameOrArgs |-> nameOrArgs, args |-> args,
                    threw |-> NoError, result |-> getNameAndArgs(nameOrArgs, args)]
        /\ UNCHANGED <<registeredPolicies, factoryMap, registrations, runner, frames, violations>>

NextUtil == GetValueOrDefault \/ GetNameAndArgs

SpecUtil == Init /\ [][NextUtil]_vars

\* Two objects have the same properties with the same values (in any order).
SameProperties(a, b) ==
    /\ KeySet(a.entries) = KeySet(b.entries)
    /\ \A k \in KeySet(a.entries) : Get(a.entries, k) = Get(b.entries, k)

\* What getValueOrDefault returns when args is not an object: def, with
\* enforcementLevel replaced by args when args is a level.
ScalarCaseHolds(args, def, result) ==
    IF isEnforcementLevel(args)
    THEN SameProperties(result, Obj(Put(def.entries, "enforcementLevel", args)))
    ELSE SameProperties(result, def)

\* The value the result has for p: that of args where defined, else that of def.
MergedValue(args, def, p) ==
    IF Get(args.entries, p) # Undefined THEN Get(args.entries, p) ELSE Get(def.entries, p)

\* C14 as claimed: getValueOrDefault(args, def) is def for undefined, null or
\* an invalid level, def with enforcementLevel replaced for a level, and for an
\* object the record over the union of both key sets, with args[p] where that
\* is defined and def[p] otherwise.
C14_UnionOfBothKeySets ==
    call.op = "getValueOrDefault"
    => IF call.args.t = "object"
       THEN /\ KeySet(call.result.entries)
                    = KeySet(call.args.entries) \cup KeySet(call.def.entries)
            /\ \A p \in KeySet(call.result.entries) :
                    Get(call.result.entries, p) = MergedValue(call.args, call.def, p)
       ELSE ScalarCaseHolds(call.args, call.def, call.result)

\* C14 as amended: as claimed, except that for an object the keys of the
\* result are those of def together with those of args whose value is defined.
C14_KeysOfDefAndDefinedArgs ==
    call.op = "getValueOrDefault"
    => IF call.args.t = "object"
       THEN /\ KeySet(call.result.entries)
                    = KeySet(call.def.entries)
                        \cup {p \in KeySet(call.args.entries) :
                                Get(call.args.entries, p) # Undefined}
            /\ \A p \in KeySet(call.result.entries) :
                    Get(call.result.entries, p) = MergedValue(call.args, call.def, p)
       ELSE ScalarCaseHolds(call.args, call.def, call.result)

\* C14 witness: args set one extra property, left another undefined and
\* overrode nothing of def; the result has def's properties and the set one.
C14_Witness ==
    /\ call.op = "getValueOrDefault"
    /\ call.args = Obj(<<Prop("foo", Undefined), Prop("checkDeletion", Bool(FALSE))>>)
    /\ call.def = Obj(<<Prop("enforcementLevel", defaultEnforcementLevel)>>)
    /\ KeySet(call.result.entries) = {"enforcementLevel", "checkDeletion"}

\* C16: getNameAndArgs(first, second) returns <<name, args>> with name = first
\* when first is a string and "pulumi-awsguard" otherwise, and args = first
\* when typeof first is "object" (an args object; null too), whatever second
\* is, and args = second otherwise.
C16_NameAndArgs ==
    call.op = "getNameAndArgs"
    => /\ call.result[1] = IF call.nameOrArgs.t = "string" THEN call.nameOrArgs.v
                           ELSE "pulumi-awsguard"
       /\ call.result[2] = IF call.nameOrArgs.t \in {"object", "null"} THEN call.nameOrArgs
                           ELSE call.args

\* C16 witness: an args object was given first and another one second.
C16_Witness ==
    /\ call.op = "getNameAndArgs"
    /\ call.nameOrArgs = Obj(<<>>)
    /\ call.args = Obj(<<Prop("all", Str("disabled"))>>)
    /\ call.result = <<"pulumi-awsguard", Obj(<<>>)>>

(***************************************************************************)
(* The validation runner of the tests (runResourcePolicy, runStackPolicy)  *)
(* and the validations it runs (SpecRunner).                               *)
(*                                                                         *)
(* A validation is a function (args, reportViolation) => void | Promise.   *)
(* Its body is a list of steps: it reports a violation, awaits a call of   *)
(* the AWS SDK, or throws.  Calling it runs the steps up to the first      *)
(* await; what is left runs when the awaited call settles.                 *)
(***************************************************************************)
\* Largest number of validations in a policy's validateResource array.
MaxCallbacks == 2

Report(message, urn) == [step |-> "report", message |-> message, urn |-> urn]
AwaitCall == [step |-> "await"]
Throw(error) == [step |-> "throw", error |-> error]

\* A body given by its steps, whatever it is called with.
Steps(steps) == [kind |-> "steps", steps |-> steps]

\* A plain function (args, reportViolation) => ...
Callback(async, body) ==
    [t |-> "function", wrapper |-> "none", declared |-> "none", async |-> async, body |-> body]

\* validateResourceOfType(resourceClass, validate), of @pulumi/policy: the
\* validation that calls validate, and returns its result, for the args that
\* are of the class.
validateResourceOfType(resourceClass, async, body) ==
    [t |-> "function", wrapper |-> "validateResourceOfType", declared |-> resourceClass,
     async |-> async, body |-> body]

\* security.ts: validateTypedResources(typeFilter, validate): the validation
\* that calls validate on the resources of the type and returns nothing.
validateTypedResources(resourceClass, async, body) ==
    [t |-> "function", wrapper |-> "validateTypedResources", declared |-> resourceClass,
     async |-> async, body |-> body]

\* A resource class is written as its __pulumiType.
LoadBalancerClasses ==
    <<"aws:elasticloadbalancing/loadBalancer:LoadBalancer",
      "aws:elasticloadbalancingv2/loadBalancer:LoadBalancer",
      "aws:applicationloadbalancing/loadBalancer:LoadBalancer",
      "aws:lb/loadBalancer:LoadBalancer",
      "aws:alb/loadBalancer:LoadBalancer">>
InstanceClass == "aws:ec2/instance:Instance"
AccessKeyClass == "aws:iam/accessKey:AccessKey"
UserClass == "aws:iam/user:User"

\* resourceClass.isInstance(obj)
isInstance(resourceClass, obj) == obj.__pulumiType = resourceClass

\* tests: isTypeOf(type, resourceClass)
isTypeOf(type, resourceClass) == isInstance(resourceClass, [__pulumiType |-> type])

\* tests: createResourceValidationArgs(resourceClass, args, config).  isType
\* is the closure (cls) => isTypeOf(type, resourceClass); the class it closes
\* over is kept in the record.  getConfig is () => config || {}; what it
\* returns is kept in the record.
createResourceValidationArgs(resourceClass, props, config) ==
    [type |-> resourceClass, props |-> props, isTypeClass |-> resourceClass,
     config |-> IF Truthy(config) THEN config ELSE Obj(<<>>)]

\* args.getConfig()
getConfig(args) == args.config

\* args.isType(cls)
isType(args, cls) == isTypeOf(args.type, args.isTypeClass)

\* tests: createStackValidationArgs(resourceClass, props): a stack of one resource.
createStackValidationArgs(resourceClass, props) ==
    [resources |-> <<[type |-> resourceClass, props |-> props]>>]

\* compute.ts: the body of each validation of elbAccessLoggingEnabled.
accessLogsSteps(loadBalancer) ==
    IF loadBalancer.accessLogs = Undefined
    THEN <<Report("Elastic Load Balancer must have access logs enabled.", Undefined)>>
    ELSE IF loadBalancer.accessLogs = Null
    THEN <<Throw("TypeError")>>
    ELSE IF ~Truthy(loadBalancer.accessLogs.enabled)
    THEN <<Report("Elastic Load Balancer must have access logs enabled.", Undefined)>>
    ELSE <<>>

\* compute.ts: elbAccessLoggingEnabled
elbAccessLoggingEnabled ==
    [name |-> "elb-logging-enabled",
     validateResource |->
        Arr([i \in 1..Len(LoadBalancerClasses) |->
                validateResourceOfType(LoadBalancerClasses[i], FALSE, [kind |-> "accessLogs"])])]

\* security.ts: the violations iamAccessKeysRotated reports for one page of listAccessKeys.
RECURSIVE pageReports(_, _, _, _)
pageReports(metadata, i, instance, maxKeyAge) ==
    IF i > Len(metadata) THEN <<>>
    ELSE (IF /\ metadata[i].AccessKeyId = instance.id
             /\ metadata[i].daysSinceCreated > maxKeyAge
          THEN <<Report([text |-> "access key must be rotated within",
                         maxKeyAge |-> maxKeyAge,
                         daysSinceCreated |-> metadata[i].daysSinceCreated], Undefined)>>
          ELSE <<>>)
         \o pageReports(metadata, i + 1, instance, maxKeyAge)

\* security.ts: the do-while over the pages of listAccessKeys; past the
\* responses given, the call answers an empty last page.
\* security.ts: await iam.listAccessKeys({ UserName, Marker }).promise()
listAccessKeys(params) == [step |-> "await", call |-> "listAccessKeys", params |-> params]

\* The do-while with every call made without a Marker.
RECURSIVE pagesSteps_noMarker(_, _, _, _)
pagesSteps_noMarker(pages, paginationToken, instance, maxKeyAge) ==
    IF pages = <<>> THEN <<listAccessKeys([Marker |-> Undefined])>>
    ELSE <<listAccessKeys([Marker |-> Undefined])>>
         \o pageReports(Head(pages).AccessKeyMetadata, 1, instance, maxKeyAge)
         \o (IF Head(pages).IsTruncated
             THEN pagesSteps_noMarker(Tail(pages), Head(pages).Marker, instance, maxKeyAge)
             ELSE <<>>)

RECURSIVE pagesSteps(_, _, _, _)
pagesSteps(pages, paginationToken, instance, maxKeyAge) ==
    IF pages = <<>> THEN <<listAccessKeys([Marker |-> paginationToken])>>
    ELSE <<listAccessKeys([Marker |-> paginationToken])>>
         \o pageReports(Head(pages).AccessKeyMetadata, 1, instance, maxKeyAge)
         \o (IF Head(pages).IsTruncated
             THEN pagesSteps(Tail(pages), Head(pages).Marker, instance, maxKeyAge)
             ELSE <<>>)

\* security.ts: the body of iamAccessKeysRotated's validation, over the access keys of the stack.
RECURSIVE accessKeysSteps(_, _, _, _)
accessKeysSteps(accessKeys, i, pages, maxKeyAge) ==
    IF i > Len(accessKeys) THEN <<>>
    ELSE IF ~Truthy(accessKeys[i].id) \/ accessKeys[i].status # Str("Active")
    THEN accessKeysSteps(accessKeys, i + 1, pages, maxKeyAge)
    ELSE pagesSteps(pages, Undefined, accessKeys[i], maxKeyAge)
         \o accessKeysSteps(accessKeys, i + 1, <<>>, maxKeyAge)

\* security.ts: iamAccessKeysRotated({ maxKeyAge })
iamAccessKeysRotated(maxKeyAge) ==
    [name |-> "access-keys-rotated",
     validateStack |-> validateTypedResources(AccessKeyClass, TRUE,
                            [kind |-> "accessKeys", maxKeyAge |-> maxKeyAge])]

\* The resource classes of the stack policies, each written as its type token.
SecurityGroupClass == "aws:ec2/securityGroup:SecurityGroup"
SecurityGroupEgressRuleClass == "aws:vpc/securityGroupEgressRule:SecurityGroupEgressRule"
SecurityGroupIngressRuleClass == "aws:vpc/securityGroupIngressRule:SecurityGroupIngressRule"
SecurityGroupRuleClass == "aws:ec2/securityGroupRule:SecurityGroupRule"
RoleClass == "aws:iam/role:Role"
PolicyAttachmentClass == "aws:iam/policyAttachment:PolicyAttachment"
RolePolicyAttachmentClass == "aws:iam/rolePolicyAttachment:RolePolicyAttachment"
RolePolicyClass == "aws:iam/rolePolicy:RolePolicy"

\* A resource of a stack (PolicyResource).  propertyDependencies is an object
\* whose properties are arrays of resources; the urn is written as the name.
PolicyResource(type, name, props, propertyDependencies) ==
    [type |-> type, name |-> name, urn |-> Str(name), props |-> props,
     propertyDependencies |-> propertyDependencies]

\* The dependencies under every property.
dependenciesOf_anyProperty(resource, property) ==
    LET RECURSIVE all(_)
        all(i) == IF i > Len(resource.propertyDependencies) THEN <<>>
                  ELSE resource.propertyDependencies[i].value \o all(i + 1)
    IN  all(1)

\* if (r.propertyDependencies[property]) r.propertyDependencies[property].forEach(...):
\* the resources walked, none when the property is not there.
dependenciesOf(resource, property) ==
    IF HasOwnProperty(resource.propertyDependencies, property)
    THEN Get(resource.propertyDependencies, property)
    ELSE <<>>

\* list && list.length > 0, for a list that is an array or undefined.
nonEmpty(list) == IF Truthy(list) THEN Len(list.items) > 0 ELSE FALSE

\* compute.ts: the switch on resource.type of securityGroupNoRuleManagementConflicts:
\* the direction of a rule.
ruleDirection(resource) ==
    CASE resource.type = SecurityGroupEgressRuleClass -> Str("egress")
      [] resource.type = SecurityGroupIngressRuleClass -> Str("ingress")
      [] resource.type = SecurityGroupRuleClass -> resource.props.type
      [] OTHER -> Undefined

\* compute.ts: the name a rule is reported under, "none" for a resource that
\* is no rule (the switch's default).
ruleCurrentType(resource) ==
    CASE resource.type = SecurityGroupEgressRuleClass -> "SecurityGroupEgressRule"
      [] resource.type = SecurityGroupIngressRuleClass -> "SecurityGroupIngressRule"
      [] resource.type = SecurityGroupRuleClass -> "SecurityGroupRule"
      [] OTHER -> "none"

\* The test of one direction, whatever the direction of the rule.
conflictsWith_anyDirection(type, dep, direction) ==
    /\ type \in {Str("ingress"), Str("egress")}
    /\ nonEmpty(IF direction = "ingress" THEN dep.props.ingress ELSE dep.props.egress)

\* compute.ts: type === direction && dep.props[direction] && dep.props[direction].length > 0
conflictsWith(type, dep, direction) ==
    /\ type = Str(direction)
    /\ nonEmpty(IF direction = "ingress" THEN dep.props.ingress ELSE dep.props.egress)

\* compute.ts: the forEach over resource.propertyDependencies["securityGroupId"].
RECURSIVE securityGroupDepSteps(_, _, _)
securityGroupDepSteps(resource, deps, j) ==
    IF j > Len(deps) THEN <<>>
    ELSE LET dep == deps[j]
             report(direction) ==
                IF conflictsWith(ruleDirection(resource), dep, direction)
                THEN <<Report([currentType |-> ruleCurrentType(resource),
                               name |-> resource.name,
                               group |-> dep.name,
                               inline |-> direction], resource.urn)>>
                ELSE <<>>
         IN  (IF dep.type # SecurityGroupClass THEN <<>>
              ELSE IF ~Truthy(dep.props) THEN <<>>
              ELSE report("ingress") \o report("egress"))
             \o securityGroupDepSteps(resource, deps, j + 1)

\* compute.ts: the body of securityGroupNoRuleManagementConflicts.validateStack:
\* args.resources.forEach(...).
RECURSIVE securityGroupRulesSteps(_, _)
securityGroupRulesSteps(resources, i) ==
    IF i > Len(resources) THEN <<>>
    ELSE (IF ruleCurrentType(resources[i]) = "none" THEN <<>>
          ELSE securityGroupDepSteps(resources[i],
                                     dependenciesOf(resources[i], "securityGroupId"), 1))
         \o securityGroupRulesSteps(resources, i + 1)

\* compute.ts: securityGroupNoRuleManagementConflicts
securityGroupNoRuleManagementConflicts ==
    [name |-> "security-group-no-rule-management-conflicts",
     validateStack |-> Callback(FALSE, [kind |-> "securityGroupRules"])]

\* The switch on r.type of iamRoleNoPolicyManagementConflicts: the property
\* that names the role, "none" for a resource that attaches nothing.
roleProp(r) ==
    CASE r.type = PolicyAttachmentClass -> "roles"
      [] r.type = RolePolicyAttachmentClass -> "role"
      [] r.type = RolePolicyClass -> "role"
      [] OTHER -> "none"

\* The name an attachment is reported under.
attachmentCurrentType(r) ==
    CASE r.type = PolicyAttachmentClass -> "PolicyAttachment"
      [] r.type = RolePolicyAttachmentClass -> "RolePolicyAttachment"
      [] r.type = RolePolicyClass -> "RolePolicy"
      [] OTHER -> "none"

\* The forEach over r.propertyDependencies[roleProp].
RECURSIVE roleDepSteps(_, _, _)
roleDepSteps(r, deps, j) ==
    IF j > Len(deps) THEN <<>>
    ELSE LET dep == deps[j]
             report(list, defines) ==
                IF nonEmpty(list)
                THEN <<Report([currentType |-> attachmentCurrentType(r),
                               role |-> dep.urn,
                               defines |-> defines], r.urn)>>
                ELSE <<>>
         IN  (IF dep.type # RoleClass THEN <<>>
              ELSE IF ~Truthy(dep.props) THEN <<>>
              ELSE report(dep.props.managedPolicyArns, "managedPolicyArns")
                   \o report(dep.props.inlinePolicies, "inlinePolicies"))
             \o roleDepSteps(r, deps, j + 1)

\* The body of iamRoleNoPolicyManagementConflicts.validateStack.
RECURSIVE rolePoliciesSteps(_, _)
rolePoliciesSteps(resources, i) ==
    IF i > Len(resources) THEN <<>>
    ELSE (IF roleProp(resources[i]) = "none" THEN <<>>
          ELSE roleDepSteps(resources[i], dependenciesOf(resources[i], roleProp(resources[i])), 1))
         \o rolePoliciesSteps(resources, i + 1)

\* iamRoleNoPolicyManagementConflicts
iamRoleNoPolicyManagementConflicts ==
    [name |-> "iam-role-no-policy-management-conflicts",
     validateStack |-> Callback(FALSE, [kind |-> "rolePolicies"])]

RdsInstanceClass == "aws:rds/instance:Instance"

\* The effective config of a policy: the values the user's config has, and
\* for every property of configSchema it has not, the declared default.
applyDefaults(configSchema, config) ==
    LET RECURSIVE withDefaults(_, _)
        withDefaults(result, i) ==
            IF i > Len(configSchema) THEN result
            ELSE IF HasOwnProperty(result, configSchema[i].key) THEN withDefaults(result, i + 1)
            ELSE withDefaults(Put(result, configSchema[i].key, configSchema[i].value), i + 1)
    IN  Obj(withDefaults(config.entries, 1))

\* The test of a volume with undefined taken for marked.
notMarkedForDeletion_falseOnly(vol) == vol.deleteOnTermination = Bool(FALSE)

\* compute.ts: vol.deleteOnTermination === undefined || vol.deleteOnTermination === false
notMarkedForDeletion(vol) ==
    vol.deleteOnTermination = Undefined \/ vol.deleteOnTermination = Bool(FALSE)

\* compute.ts: the body of ec2VolumeInUse's validation.
ebsBlockDevicesSteps(instance, config) ==
    LET checkDeletion == Get(config.entries, "checkDeletion")
        vols == IF Truthy(instance.ebsBlockDevices) THEN instance.ebsBlockDevices.items ELSE <<>>
        marked == SelectSeq(vols, notMarkedForDeletion)
    IN  (IF ~Truthy(instance.ebsBlockDevices) \/ Len(vols) = 0
         THEN <<Report([text |-> "EC2 instance must have an EBS volume attached."], Undefined)>>
         ELSE <<>>)
        \o (IF Truthy(checkDeletion)
            THEN [j \in 1..Len(marked) |->
                    Report([text |-> "must be marked for termination on delete.",
                            volumeId |-> marked[j].volumeId], Undefined)]
            ELSE <<>>)

\* compute.ts: ec2VolumeInUse, with its configSchema and its validation.
ec2VolumeInUseRule ==
    [name |-> "ec2-volume-inuse",
     configSchema |-> <<Prop("checkDeletion", Bool(TRUE))>>,
     validateResource |-> validateResourceOfType(InstanceClass, FALSE, [kind |-> "ebsBlockDevices"])]

\* database.ts: the body of rdsInstanceBackupEnabled's validation.
rdsBackupSteps(instance, config) ==
    LET backupRetentionPeriod == Get(config.entries, "backupRetentionPeriod")
        preferredBackupWindow == Get(config.entries, "preferredBackupWindow")
        checkReadReplicas == Get(config.entries, "checkReadReplicas")
    IN  IF ~Truthy(instance.replicateSourceDb) \/ Truthy(checkReadReplicas)
        THEN (IF instance.backupRetentionPeriod # Undefined
                 /\ instance.backupRetentionPeriod = Num(0)
              THEN <<Report([text |-> "RDS Instances must have backups enabled."], Undefined)>>
              ELSE <<>>)
             \o (IF /\ Truthy(backupRetentionPeriod)
                    /\ \/ /\ ~Truthy(instance.backupRetentionPeriod)
                          /\ backupRetentionPeriod # Num(7)
                       \/ /\ Truthy(instance.backupRetentionPeriod)
                          /\ backupRetentionPeriod # instance.backupRetentionPeriod
                 THEN <<Report([text |-> "RDS Instances must have a backup retention period of",
                                period |-> backupRetentionPeriod], Undefined)>>
                 ELSE <<>>)
             \o (IF /\ Truthy(preferredBackupWindow)
                    /\ \/ ~Truthy(instance.backupWindow)
                       \/ preferredBackupWindow # instance.backupWindow
                 THEN <<Report([text |-> "RDS Instances must have a backup preferred back up window of",
                                window |-> preferredBackupWindow], Undefined)>>
                 ELSE <<>>)
        ELSE <<>>

\* database.ts: rdsInstanceBackupEnabled
rdsInstanceBackupEnabled ==
    [name |-> "rds-instance-backup-enabled",
     configSchema |-> <<Prop("backupRetentionPeriod", Str("666")),
                        Prop("preferredBackupWindow", Str("")),
                        Prop("checkReadReplicas", Bool(TRUE))>>,
     validateResource |-> validateResourceOfType(RdsInstanceClass, FALSE, [kind |-> "rdsBackup"])]

\* The steps of a body for what it is called with; aws is what the AWS SDK answers.
bodySteps(body, input, args, aws) ==
    CASE body.kind = "steps" -> body.steps
      [] body.kind = "accessLogs" -> accessLogsSteps(input)
      [] body.kind = "ebsBlockDevices" -> ebsBlockDevicesSteps(input, getConfig(args))
      [] body.kind = "rdsBackup" -> rdsBackupSteps(input, getConfig(args))
      [] body.kind = "accessKeys" -> accessKeysSteps(input, 1, aws, body.maxKeyAge)
      [] body.kind = "securityGroupRules" -> securityGroupRulesSteps(input.resources, 1)
      [] body.kind = "rolePolicies" -> rolePoliciesSteps(input.resources, 1)

\* reportViolation: violations.push({ message, urn })
push(violations_, step) == Append(violations_, [message |-> step.message, urn |-> step.urn])

\* Runs steps up to the first await, the first throw or the end.
RECURSIVE runToSuspension(_, _)
runToSuspension(steps, violations_) ==
    IF steps = <<>>
    THEN [stop |-> "end", rest |-> <<>>, violations |-> violations_, error |-> NoError,
          awaited |-> <<>>]
    ELSE CASE Head(steps).step = "report" ->
                runToSuspension(Tail(steps), push(violations_, Head(steps)))
           [] Head(steps).step = "await" ->
                [stop |-> "await", rest |-> Tail(steps), violations |-> violations_,
                 error |-> NoError, awaited |-> <<Head(steps)>>]
           [] Head(steps).step = "throw" ->
                [stop |-> "throw", rest |-> <<>>, violations |-> violations_,
                 error |-> Head(steps).error, awaited |-> <<>>]

\* The activation of a body after it ran: a function that is not async has
\* returned or thrown, an async one has a promise fulfilled, rejected or
\* pending; calls are the calls it has awaited so far.
activation(async, ran, calls) ==
    [status |-> CASE ran.stop = "end" -> IF async THEN "fulfilled" ELSE "returned"
                  [] ran.stop = "await" -> "pending"
                  [] ran.stop = "throw" -> IF async THEN "rejected" ELSE "threw",
     rest |-> ran.rest,
     error |-> ran.error,
     calls |-> calls \o ran.awaited]

\* An activation for a validation whose body was not called.
NotCalled == [status |-> "notCalled", rest |-> <<>>, error |-> NoError, calls |-> <<>>]

\* The resources validateTypedResources hands to validate: those of the type, as their props.
typedResources(resources, resourceClass) ==
    LET typed == SelectSeq(resources, LAMBDA r : isInstance(resourceClass, [__pulumiType |-> r.type]))
    IN  [i \in 1..Len(typed) |-> typed[i].props]

\* What the validation calls its body with: its own args, the props of the
\* resource, or the typed resources of the stack.
bodyInput(validation, args) ==
    CASE validation.wrapper = "none" -> args
      [] validation.wrapper = "validateResourceOfType" -> args.props
      [] validation.wrapper = "validateTypedResources" ->
            typedResources(args.resources, validation.declared)

\* What the call of a validation evaluates to, its body having run to `frame`:
\* validateTypedResources does not return what validate returns.
valueOf(validation, frame) ==
    IF frame.status = "threw" THEN "throw"
    ELSE IF validation.async /\ validation.wrapper # "validateTypedResources" THEN "promise"
    ELSE "undefined"

\* The call of a validation whose body was called and ran as `ran`.
called(validation, ran) ==
    [violations |-> ran.violations,
     frame |-> activation(validation.async, ran, <<>>),
     value |-> valueOf(validation, activation(validation.async, ran, <<>>))]

\* validation(args, report): the violations after the call, the activation
\* of the body, and what the call evaluates to ("throw" when it throws,
\* "promise" for the body's promise, "undefined" otherwise).
invoke(validation, args, aws, violations_) ==
    IF validation.wrapper = "validateResourceOfType" /\ ~isType(args, validation.declared)
    THEN [violations |-> violations_, frame |-> NotCalled, value |-> "undefined"]
    ELSE called(validation,
                runToSuspension(bodySteps(validation.body, bodyInput(validation, args), args, aws),
                                violations_))

\* await of nothing, or of a promise that is always taken as settled.
settled_always(frames_, awaits) == TRUE

\* await Promise.resolve(x) can go on: x is no promise, or its promise is settled.
settled(frames_, awaits) ==
    IF awaits = 0 THEN TRUE ELSE frames_[awaits].status \in {"fulfilled", "rejected"}

\* await with the rejection swallowed.
awaitThrows_never(frames_, awaits) == FALSE

\* await Promise.resolve(x) throws: x is a promise that is rejected.
awaitThrows(frames_, awaits) ==
    IF awaits = 0 THEN FALSE ELSE frames_[awaits].status = "rejected"

\* Array.isArray(validateResource) ? validateResource : [validateResource]
validationsOf(validateResource) ==
    IF validateResource.t = "array" THEN validateResource.items ELSE <<validateResource>>

\* The runner after its i-th validation was called with outcome r: it has
\* thrown what the validation threw, or awaits what the validation returned.
awaitValidation(run, i, frames_, r) ==
    [runner |-> IF r.value = "throw"
                THEN [run EXCEPT !.pc = "rejected", !.idx = i, !.error = r.frame.error]
                ELSE [run EXCEPT !.pc = "awaiting", !.idx = i,
                                 !.awaits = IF r.value = "promise" THEN Len(frames_) + 1 ELSE 0],
     frames |-> Append(frames_, [callback |-> i] @@ r.frame),
     violations |-> r.violations]

\* The runner from the i-th validation on, up to its next await: it has
\* returned the violations, has thrown, or awaits what the validation returned.
advance(run, i, frames_, violations_) ==
    IF i > Len(run.validations)
    THEN [runner |-> [run EXCEPT !.pc = "returned", !.idx = i, !.result = violations_],
          frames |-> frames_, violations |-> violations_]
    ELSE IF run.fn = "runResourcePolicy" /\ ~Truthy(run.validations[i])
    THEN [runner |-> [run EXCEPT !.pc = "rejected", !.idx = i,
                                 !.error = "validateResource must be a function or array of functions."],
          frames |-> frames_, violations |-> violations_]
    ELSE awaitValidation(run, i, frames_,
                         invoke(run.validations[i], run.args, run.aws, violations_))

\* The validations the policies under test are made of.
CallbackChoices ==
    {Undefined,
     Callback(FALSE, Steps(<<>>)),
     Callback(FALSE, Steps(<<Report("a1", Undefined), Report("a2", Str("urn:a"))>>)),
     Callback(FALSE, Steps(<<Report("b1", Undefined), Throw("b")>>)),
     Callback(TRUE, Steps(<<Report("c1", Undefined)>>)),
     Callback(TRUE, Steps(<<Throw("d")>>)),
     Callback(TRUE, Steps(<<AwaitCall, Report("e1", Undefined)>>)),
     Callback(TRUE, Steps(<<Report("f1", Str("urn:f")), AwaitCall, Report("f2", Undefined), AwaitCall>>))}

\* Sequences of at most n validations.
RECURSIVE CallbackLists(_)
CallbackLists(n) ==
    IF n = 0 THEN {<<>>}
    ELSE CallbackLists(n - 1)
         \cup {Append(l, c) : l \in {m \in CallbackLists(n - 1) : Len(m) = n - 1},
                              c \in CallbackChoices}

\* Values of a load balancer's accessLogs.
AccessLogsChoices ==
    {Undefined, Null, [t |-> "object", enabled |-> Bool(FALSE)],
     [t |-> "object", enabled |-> Bool(TRUE)]}

\* What listAccessKeys answers, page by page.
ListAccessKeysChoices ==
    {<<[IsTruncated |-> FALSE, Marker |-> Undefined,
        AccessKeyMetadata |-> <<[AccessKeyId |-> Str("AKITESTKEYID"), daysSinceCreated |-> 0]>>]>>,
     <<[IsTruncated |-> FALSE, Marker |-> Undefined,
        AccessKeyMetadata |-> <<[AccessKeyId |-> Str("AKITESTKEYID"), daysSinceCreated |-> 180]>>]>>,
     <<[IsTruncated |-> TRUE, Marker |-> Str("timeCalled-1"),
        AccessKeyMetadata |-> <<[AccessKeyId |-> Str("AKITESTKEYID-not-expired"), daysSinceCreated |-> 0]>>],
       [IsTruncated |-> FALSE, Marker |-> Undefined,
        AccessKeyMetadata |-> <<[AccessKeyId |-> Str("AKITESTKEYID"), daysSinceCreated |-> 180]>>]>>,
     <<[IsTruncated |-> TRUE, Marker |-> Str("timeCalled-1"),
        AccessKeyMetadata |-> <<[AccessKeyId |-> Str("AKITESTKEYID"), daysSinceCreated |-> 180]>>],
       [IsTruncated |-> TRUE, Marker |-> Str("timeCalled-2"),
        AccessKeyMetadata |-> <<>>],
       [IsTruncated |-> FALSE, Marker |-> Undefined,
        AccessKeyMetadata |-> <<[AccessKeyId |-> Str("AKITESTKEYID"), daysSinceCreated |-> 181]>>],
       [IsTruncated |-> FALSE, Marker |-> Undefined,
        AccessKeyMetadata |-> <<[AccessKeyId |-> Str("AKITESTKEYID"), daysSinceCreated |-> 182]>>]>>}

\* The stacks iamAccessKeysRotated is run on.
AccessKeyStackChoices ==
    {createStackValidationArgs(AccessKeyClass, [id |-> Undefined, status |-> Undefined]),
     createStackValidationArgs(AccessKeyClass, [id |-> Str("AKITESTKEYID"), status |-> Str("Inactive")]),
     createStackValidationArgs(AccessKeyClass, [id |-> Str("AKITESTKEYID"), status |-> Str("Active")]),
     createStackValidationArgs(UserClass, [id |-> Str("AKITESTKEYID"), status |-> Str("Active")])}

\* Values of a list of inline rules or policies: not given, empty, one element.
InlineChoices == {Undefined, Arr(<<>>), Arr(<<"inline">>)}

DefaultSecurityGroupClass == "aws:ec2/defaultSecurityGroup:DefaultSecurityGroup"

\* The security groups of the stacks: every pair of inline lists, a group
\* without props, and a default security group with inline rules.
SecurityGroupChoices ==
    {PolicyResource(SecurityGroupClass, "test-sg",
                    [t |-> "object", ingress |-> i, egress |-> e], <<>>) :
        i \in InlineChoices, e \in InlineChoices}
    \cup {PolicyResource(SecurityGroupClass, "test-sg", Undefined, <<>>),
          PolicyResource(DefaultSecurityGroupClass, "test-sg",
                         [t |-> "object", ingress |-> Arr(<<"inline">>),
                          egress |-> Arr(<<"inline">>)], <<>>)}

\* The dependencies a resource declares on another: none, or under one property.
DependencyChoices(properties, dep) ==
    {<<>>} \cup {<<Prop(p, <<dep>>)>> : p \in properties}

\* The rules declared on their own, each with the group it may depend on.
SecurityGroupRuleChoices(group) ==
    {PolicyResource(c, "test-sg-rule", [t |-> "object", type |-> Undefined], d) :
        c \in {SecurityGroupEgressRuleClass, SecurityGroupIngressRuleClass},
        d \in DependencyChoices({"securityGroupId", "sourceSecurityGroupId"}, group)}
    \cup
    {PolicyResource(SecurityGroupRuleClass, "test-sg-rule", [t |-> "object", type |-> ty], d) :
        ty \in {Str("ingress"), Str("egress"), Undefined},
        d \in DependencyChoices({"securityGroupId", "sourceSecurityGroupId"}, group)}

\* The stacks securityGroupNoRuleManagementConflicts is run on: a group and a
\* rule, and a group with a rule of each direction.
SecurityGroupStackChoices ==
    UNION {{[resources |-> <<g, r>>] : r \in SecurityGroupRuleChoices(g)} :
                g \in SecurityGroupChoices}
    \cup
    {LET g == PolicyResource(SecurityGroupClass, "test-sg",
                             [t |-> "object", ingress |-> Arr(<<"inline">>),
                              egress |-> Arr(<<"inline">>)], <<>>)
         rule(c, name) == PolicyResource(c, name, [t |-> "object", type |-> Undefined],
                                         <<Prop("securityGroupId", <<g>>)>>)
     IN  [resources |-> <<rule(SecurityGroupIngressRuleClass, "test-sg-ingress-rule"), g,
                          rule(SecurityGroupEgressRuleClass, "test-sg-egress-rule")>>]}

\* The roles of the stacks: every pair of lists, a role without props, and a
\* user (no role) with both lists.
RoleChoices ==
    {PolicyResource(RoleClass, "test-role",
                    [t |-> "object", managedPolicyArns |-> m, inlinePolicies |-> i], <<>>) :
        m \in InlineChoices, i \in InlineChoices}
    \cup {PolicyResource(RoleClass, "test-role", Undefined, <<>>),
          PolicyResource(UserClass, "test-role",
                         [t |-> "object", managedPolicyArns |-> Arr(<<"inline">>),
                          inlinePolicies |-> Arr(<<"inline">>)], <<>>)}

\* The attachments declared on their own, each with the role it may depend on.
AttachmentChoices(role) ==
    {PolicyResource(c, "test-attachment", [t |-> "object"], d) :
        c \in {PolicyAttachmentClass, RolePolicyAttachmentClass, RolePolicyClass},
        d \in DependencyChoices({"role", "roles", "policy"}, role)}

\* The stacks iamRoleNoPolicyManagementConflicts is run on.
RoleStackChoices ==
    UNION {{[resources |-> <<role, a>>] : a \in AttachmentChoices(role)} : role \in RoleChoices}

\* Values of an instance's ebsBlockDevices: not given, none, one or two volumes.
VolumeChoices ==
    {[volumeId |-> Str("vol-1"), deleteOnTermination |-> d] :
        d \in {Undefined, Null, Bool(FALSE), Bool(TRUE)}}

EbsBlockDevicesChoices ==
    {Undefined, Arr(<<>>)}
    \cup {Arr(<<v>>) : v \in VolumeChoices}
    \cup {Arr(<<v, [volumeId |-> Str("vol-2"), deleteOnTermination |-> d]>>) :
            v \in VolumeChoices, d \in {Undefined, Bool(TRUE)}}

\* The config ec2VolumeInUse is run with: none given to the tests' args, and
\* the effective config of no, a true and a false checkDeletion.
Ec2VolumeInUseConfigChoices ==
    {Undefined}
    \cup {applyDefaults(ec2VolumeInUseRule.configSchema, c) :
            c \in {Obj(<<>>), Obj(<<Prop("checkDeletion", Bool(TRUE))>>),
                   Obj(<<Prop("checkDeletion", Bool(FALSE))>>)}}

\* The RDS instances rdsInstanceBackupEnabled is run on.
RdsInstanceChoices ==
    {[backupRetentionPeriod |-> p, backupWindow |-> w, replicateSourceDb |-> r] :
        p \in {Undefined, Num(0), Num(7), Num(10)},
        w \in {Undefined, Str("random-window")},
        r \in {Undefined, Str("some-there-db")}}

\* The config rdsInstanceBackupEnabled is run with: none given to the tests'
\* args, and the effective config of what the user gives.
RdsBackupConfigChoices ==
    {Undefined}
    \cup {applyDefaults(rdsInstanceBackupEnabled.configSchema, c) :
            c \in {Obj(<<>>),
                   Obj(<<Prop("checkReadReplicas", Bool(FALSE))>>),
                   Obj(<<Prop("backupRetentionPeriod", Num(7)),
                         Prop("preferredBackupWindow", Str("random-window"))>>)}}

\* The runs: the runner called, the policy, the args, and what AWS answers.
RunChoices ==
    {[fn |-> "runResourcePolicy", policy |-> [name |-> "policy", validateResource |-> v],
      args |-> createResourceValidationArgs(InstanceClass, [accessLogs |-> Undefined], Undefined), aws |-> <<>>] :
        v \in (CallbackChoices \ {Undefined}) \cup {Arr(l) : l \in CallbackLists(MaxCallbacks)}}
    \cup
    {[fn |-> "runResourcePolicy", policy |-> elbAccessLoggingEnabled,
      args |-> createResourceValidationArgs(c, [accessLogs |-> a], Undefined), aws |-> <<>>] :
        c \in {LoadBalancerClasses[i] : i \in 1..Len(LoadBalancerClasses)} \cup {InstanceClass},
        a \in AccessLogsChoices}
    \cup
    {[fn |-> "runStackPolicy", policy |-> iamAccessKeysRotated(30), args |-> s, aws |-> p] :
        s \in AccessKeyStackChoices, p \in ListAccessKeysChoices}
    \cup
    {[fn |-> "runResourcePolicy", policy |-> ec2VolumeInUseRule,
      args |-> createResourceValidationArgs(InstanceClass, [ebsBlockDevices |-> e], c),
      aws |-> <<>>] : e \in EbsBlockDevicesChoices, c \in Ec2VolumeInUseConfigChoices}
    \cup
    {[fn |-> "runResourcePolicy", policy |-> rdsInstanceBackupEnabled,
      args |-> createResourceValidationArgs(RdsInstanceClass, i, c), aws |-> <<>>] :
        i \in RdsInstanceChoices, c \in RdsBackupConfigChoices}
    \cup
    {[fn |-> "runStackPolicy", policy |-> securityGroupNoRuleManagementConflicts,
      args |-> st, aws |-> <<>>] : st \in SecurityGroupStackChoices}
    \cup
    {[fn |-> "runStackPolicy", policy |-> iamRoleNoPolicyManagementConflicts,
      args |-> st, aws |-> <<>>] : st \in RoleStackChoices}
    \cup
    {[fn |-> "runStackPolicy", policy |-> [name |-> "policy", validateStack |-> v],
      args |-> createStackValidationArgs(InstanceClass, [accessLogs |-> Undefined]), aws |-> <<>>] :
        v \in CallbackChoices \ {Undefined}}

\* The runner at the call of runResourcePolicy or runStackPolicy.
started(c) ==
    [pc |-> "loop", fn |-> c.fn, policy |-> c.policy, args |-> c.args, aws |-> c.aws,
     validations |-> IF c.fn = "runResourcePolicy"
                     THEN validationsOf(c.policy.validateResource)
                     ELSE <<c.policy.validateStack>>,
     idx |-> 1, awaits |-> 0, error |-> NoError, result |-> Undefined]

\* The runner, the activations and the violations become those of r.
RunnerMoves(r) ==
    /\ runner' = r.runner
    /\ frames' = r.frames
    /\ violations' = r.violations

\* The k-th activation and the violations become what its body ran to.
BodyMoves(k, ran) ==
    /\ frames' = [frames EXCEPT ![k] = [callback |-> frames[k].callback]
                                            @@ activation(TRUE, ran, frames[k].calls)]
    /\ violations' = ran.violations

\* runResourcePolicy(resPolicy, args) or runStackPolicy(stackPolicy, args) is
\* called: it runs up to its first await.
StartRun ==
    \E c \in RunChoices :
        /\ runner.pc = "idle"
        /\ RunnerMoves(advance(started(c), 1, <<>>, <<>>))
        /\ UNCHANGED <<registeredPolicies, factoryMap, registrations, call>>

\* The runner's await completes: it throws what the promise was rejected
\* with, or goes on with the next validation, up to its next await.
Resume ==
    /\ runner.pc = "awaiting"
    /\ settled(frames, runner.awaits)
    /\ IF awaitThrows(frames, runner.awaits)
       THEN /\ runner' = [runner EXCEPT !.pc = "rejected", !.error = frames[runner.awaits].error]
            /\ UNCHANGED <<frames, violations>>
       ELSE RunnerMoves(advance(runner, runner.idx + 1, frames, violations))
    /\ UNCHANGED <<registeredPolicies, factoryMap, registrations, call>>

\* The AWS call a body awaits is answered: the body runs on, up to its next await.
AwsCallResolves ==
    \E k \in 1..Len(frames) :
        /\ frames[k].status = "pending"
        /\ BodyMoves(k, runToSuspension(frames[k].rest, violations))
        /\ UNCHANGED <<registeredPolicies, factoryMap, registrations, call, runner>>

\* The AWS call a body awaits fails: the await throws and the body's promise is rejected.
AwsCallRejects ==
    \E k \in 1..Len(frames) :
        /\ frames[k].status = "pending"
        /\ frames' = [frames EXCEPT ![k] = [frames[k] EXCEPT !.status = "rejected",
                                                             !.rest = <<>>,
                                                             !.error = "AWS call failed"]]
        /\ UNCHANGED <<registeredPolicies, factoryMap, registrations, call, runner, violations>>

NextRunner == StartRun \/ Resume \/ AwsCallResolves \/ AwsCallRejects

SpecRunner == Init /\ [][NextRunner]_vars

(***************************************************************************)
(* getPolicies over the factories that check their argument bag, with the  *)
(* objects it writes to and the factories it calls (SpecFactoryArgs).      *)
(***************************************************************************)
\* security.ts: iamAccessKeysRotated(args): what it throws and the policy it returns.
iamAccessKeysRotatedFactory(args) ==
    LET r == getValueOrDefault(args, Obj(<<Prop("enforcementLevel", defaultEnforcementLevel)>>))
        maxKeyAge == Get(r.entries, "maxKeyAge")
        maxAge == IF maxKeyAge = Undefined THEN Num(90) ELSE maxKeyAge
    IN  IF maxAge.n < 1 \/ maxAge.n > 2 * 365
        THEN [threw |-> "Invalid maxKeyAge.", policy |-> Undefined]
        ELSE [threw |-> NoError,
              policy |-> [name |-> "access-keys-rotated",
                          enforcementLevel |-> Get(r.entries, "enforcementLevel"),
                          validateStack |-> iamAccessKeysRotated(maxAge.n).validateStack]]

\* database.ts of the factory revision: rdsInstanceBackupEnabled(args).
rdsInstanceBackupEnabledFactory(args) ==
    LET r == getValueOrDefault(args, Obj(<<Prop("enforcementLevel", defaultEnforcementLevel),
                                           Prop("checkReadReplicas", Bool(TRUE))>>))
        backupRetentionPeriod == Get(r.entries, "backupRetentionPeriod")
    IN  IF backupRetentionPeriod # Undefined /\ backupRetentionPeriod.n <= 0
        THEN [threw |-> "Specified retention period must be greater than 0.",
              policy |-> Undefined]
        ELSE [threw |-> NoError,
              policy |-> [name |-> "rds-instance-backup-enabled",
                          enforcementLevel |-> Get(r.entries, "enforcementLevel"),
                          backupRetentionPeriod |-> backupRetentionPeriod,
                          checkReadReplicas |-> Get(r.entries, "checkReadReplicas")]]

\* factory(factoryArgs), of a factory that may throw.
CallCheckingFactory(factory, factoryArgs) ==
    CASE factory.name = "iamAccessKeysRotated" -> iamAccessKeysRotatedFactory(factoryArgs)
      [] factory.name = "rdsInstanceBackupEnabled" -> rdsInstanceBackupEnabledFactory(factoryArgs)
      [] OTHER -> [threw |-> NoError, policy |-> CallFactory(factory, factoryArgs)]

\* The first lines of getPolicies with the default level written to the
\* object args refers to, without the clone.
getPoliciesHeap_noClone(args) ==
    LET h0 == [ref |-> "caller", caller |-> args, literal |-> Undefined, clone |-> Undefined]
        h1 == IF ~Truthy(args) \/ Len(args.entries) = 0
              THEN [h0 EXCEPT !.ref = "literal",
                              !.literal = Obj(<<Prop("all", defaultEnforcementLevel)>>)]
              ELSE h0
    IN  IF ~Truthy(Get(h1[h1.ref].entries, "all"))
        THEN [h1 EXCEPT ![h1.ref] = Obj(Put(h1[h1.ref].entries, "all", defaultEnforcementLevel))]
        ELSE h1

\* The first lines of getPolicies, on the objects they touch: the caller's
\* args, the literal { all: defaultEnforcementLevel }, and the clone
\* Object.assign({}, args); ref is the object the variable args refers to.
getPoliciesHeap(args) ==
    LET h0 == [ref |-> "caller", caller |-> args, literal |-> Undefined, clone |-> Undefined]
        h1 == IF ~Truthy(args) \/ Len(args.entries) = 0
              THEN [h0 EXCEPT !.ref = "literal",
                              !.literal = Obj(<<Prop("all", defaultEnforcementLevel)>>)]
              ELSE h0
    IN  IF ~Truthy(Get(h1[h1.ref].entries, "all"))
        THEN LET h2 == [h1 EXCEPT !.ref = "clone", !.clone = Obj(h1[h1.ref].entries)]
             IN  [h2 EXCEPT !.clone = Obj(Put(h2.clone.entries, "all", defaultEnforcementLevel))]
        ELSE h1

\* The skip with an object that sets enforcementLevel to "disabled" skipped too.
skipsKey_objectLevel(a, key) ==
    \/ skipped(factoryArgsOf(a, key))
    \/ /\ factoryArgsOf(a, key).t = "object"
       /\ Get(factoryArgsOf(a, key).entries, "enforcementLevel") = Str("disabled")

\* getPolicies: the policy of the key is disabled and its factory is not called.
skipsKey(a, key) == skipped(factoryArgsOf(a, key))

\* The loop of getPolicies over the sorted keys, from the i-th key on: what
\* it throws, the policies pushed, and the keys whose factory was called.
RECURSIVE getPoliciesLoop(_, _, _, _, _, _)
getPoliciesLoop(factories, a, keys, i, policies, invoked) ==
    IF i > Len(keys)
    THEN [threw |-> NoError, policies |-> policies, invoked |-> invoked]
    ELSE IF skipsKey(a, keys[i])
    THEN getPoliciesLoop(factories, a, keys, i + 1, policies, invoked)
    ELSE LET r == CallCheckingFactory(Get(factories, keys[i]), factoryArgsOf(a, keys[i]))
         IN  IF r.threw # NoError
             THEN [threw |-> r.threw, policies |-> policies,
                   invoked |-> Append(invoked, keys[i])]
             ELSE getPoliciesLoop(factories, a, keys, i + 1, Append(policies, r.policy),
                                  Append(invoked, keys[i]))

\* The registerPolicy calls of the rules that check their arguments.
CheckingFactoryRegistrations ==
    {<<"iamAccessKeysRotated", Fn("iamAccessKeysRotated")>>,
     <<"rdsInstanceBackupEnabled", Fn("rdsInstanceBackupEnabled")>>,
     <<"ec2VolumeInUse", Fn("ec2VolumeInUse")>>}

\* Overrides of iamAccessKeysRotated and of rdsInstanceBackupEnabled.
MaxKeyAgeOverrides ==
    {Absent, Str("disabled"), Str("advisory"),
     Obj(<<Prop("enforcementLevel", Str("disabled"))>>)}
    \cup {Obj(<<Prop("maxKeyAge", Num(n))>>) : n \in {0, 30, 731}}
    \cup {Obj(<<Prop("maxKeyAge", Num(0)), Prop("enforcementLevel", Str("disabled"))>>)}

BackupRetentionOverrides ==
    {Absent, Str("disabled"),
     Obj(<<Prop("backupRetentionPeriod", Num(7))>>),
     Obj(<<Prop("backupRetentionPeriod", Num(0))>>),
     Obj(<<Prop("backupRetentionPeriod", Num(0)), Prop("enforcementLevel", Str("disabled"))>>)}

\* What getPolicies is given as args, over these rules.
CheckingArgsChoices ==
    {Undefined, Null, Obj(<<>>)}
    \cup {Obj(Entry("all", a) \o Entry("iamAccessKeysRotated", x)
                \o Entry("rdsInstanceBackupEnabled", y)) :
            a \in {Absent, Undefined, Str(""), Str("advisory"), Str("disabled")},
            x \in MaxKeyAgeOverrides, y \in BackupRetentionOverrides}

\* A module calls registerPolicy(property, factory).
RegisterCheckingFactory ==
    \E reg \in CheckingFactoryRegistrations :
        LET r == registerPolicyFactory(factoryMap, reg[1], reg[2])
        IN  /\ Len(r.table) <= MaxRules
            /\ factoryMap' = r.table
            /\ registrations' = IF r.threw = NoError THEN registrations + 1 ELSE registrations
            /\ call' = [op |-> "registerPolicy", property |-> reg[1],
                        policy |-> reg[2], threw |-> r.threw]
            /\ UNCHANGED <<registeredPolicies, runner, frames, violations>>

\* getPolicies(factories, args), as the call it makes: what the caller's args
\* holds after it, the args the loop works with, the factories called, and
\* what is thrown or returned.
getPoliciesCall(factories, args) ==
    LET h == getPoliciesHeap(args)
        a == h[h.ref]
        r == getPoliciesLoop(factories, a, sortedKeys(factories), 1, <<>>, <<>>)
    IN  [op |-> "getPolicies", args |-> args, argsAfter |-> h.caller, effective |-> a,
         invoked |-> r.invoked, threw |-> r.threw,
         result |-> IF r.threw = NoError THEN filterDisabled(r.policies) ELSE Undefined]

\* getPolicies(factoryMap, args) is called.
GetPoliciesChecking ==
    \E args \in CheckingArgsChoices :
        /\ call' = getPoliciesCall(factoryMap, args)
        /\ UNCHANGED <<registeredPolicies, factoryMap, registrations, runner, frames,
                       violations>>

NextFactoryArgs == RegisterCheckingFactory \/ GetPoliciesChecking

SpecFactoryArgs == Init /\ [][NextFactoryArgs]_vars

(***************************************************************************)
(* Properties of getPolicies (SpecFactories).                              *)
(***************************************************************************)
\* The name of the policy a registered key's factory makes.
PolicyNameOf(key) == CallFactory(Get(factoryMap, key), Undefined).name

\* The places of a key's policy in a list of policies.
PlacesOf(policies, key) == {i \in 1..Len(policies) : policies[i].name = PolicyNameOf(key)}

\* The policies are those of the keys in `keys`, each once, each at `level`.
ExactlyAt(policies, keys, level) ==
    /\ Len(policies) = Cardinality(keys)
    /\ \A k \in keys :
        /\ Cardinality(PlacesOf(policies, k)) = 1
        /\ \A i \in PlacesOf(policies, k) : policies[i].enforcementLevel = level

\* The level an override asks for: itself, or its enforcementLevel property.
LevelOf(override) ==
    IF override.t = "object" THEN Get(override.entries, "enforcementLevel") ELSE override

\* C4: with no configuration (undefined, null, {}) getPolicies returns every
\* registered rule exactly once, each at the default enforcement level.
C4_NoConfigEnablesAll ==
    (call.op = "getPolicies" /\ call.args \in {Undefined, Null, Obj(<<>>)})
    => ExactlyAt(call.result, KeySet(factoryMap), defaultEnforcementLevel)

\* C4 witness: getPolicies was called with {} on a table of two rules.
C4_Witness ==
    /\ call.op = "getPolicies"
    /\ call.args = Obj(<<>>)
    /\ Len(factoryMap) = 2
    /\ Len(call.result) = 2

\* C5 as claimed: { all: "disabled", R: L }, with L a bare level or the
\* enforcementLevel of an object, yields exactly R, at level L.
C5_OnlyTheEnabledRule ==
    (call.op = "getPolicies" /\ call.args.t = "object")
    => \A R \in KeySet(factoryMap) :
        (/\ KeySet(call.args.entries) = {"all", R}
         /\ Get(call.args.entries, "all") = Str("disabled")
         /\ LevelOf(Get(call.args.entries, R)) \in {Str("mandatory"), Str("advisory")})
        => ExactlyAt(call.result, {R}, LevelOf(Get(call.args.entries, R)))

\* An override that disables: "disabled" or { enforcementLevel: "disabled" }.
DisablesRule(override) ==
    override \in {Str("disabled"), Obj(<<Prop("enforcementLevel", Str("disabled"))>>)}

\* C6 as claimed: with `all` a non-disabled level L (the default when absent)
\* and the rules of a set D overridden to disabled, in either form, getPolicies
\* yields exactly the registered rules outside D, each at level L.
C6_AllButTheDisabledRules ==
    (call.op = "getPolicies" /\ call.args.t = "object")
    => LET entries == call.args.entries
           D == KeySet(entries) \cap KeySet(factoryMap)
           L == IF HasOwnProperty(entries, "all") THEN Get(entries, "all")
                ELSE defaultEnforcementLevel
       IN  (/\ L \in {Str("mandatory"), Str("advisory")}
            /\ \A k \in D : DisablesRule(Get(entries, k)))
           => ExactlyAt(call.result, KeySet(factoryMap) \ D, L)

\* C7: getPolicies never returns a policy whose enforcement level is
\* "disabled", and returns no policy at all for { all: "disabled" }.
C7_NoDisabledPolicy ==
    call.op = "getPolicies"
    => /\ \A i \in 1..Len(call.result) : call.result[i].enforcementLevel # Str("disabled")
       /\ call.args = Obj(<<Prop("all", Str("disabled"))>>) => call.result = <<>>

\* C7 witness: a registered rule was disabled through its argument bag.
C7_Witness ==
    /\ call.op = "getPolicies"
    /\ call.args.t = "object"
    /\ HasOwnProperty(factoryMap, "ec2VolumeInUse")
    /\ Get(call.args.entries, "ec2VolumeInUse") = Obj(<<Prop("enforcementLevel", Str("disabled"))>>)
    /\ Get(call.args.entries, "all") = Str("advisory")
    /\ Len(factoryMap) = 2
    /\ Len(call.result) = 1

\* C8 as claimed: for every registered rule R and level L, the override
\* { enforcementLevel: L } resolves as the override L does.
C8_ObjectFormResolvesAsLevel ==
    (call.op = "getPolicies" /\ call.args.t = "object")
    => \A R \in KeySet(factoryMap) :
        LET override == Get(call.args.entries, R)
        IN  (/\ override.t = "object"
             /\ KeySet(override.entries) = {"enforcementLevel"}
             /\ isEnforcementLevel(LevelOf(override)))
            => call.result = getPolicies(factoryMap,
                                Obj(Put(call.args.entries, R, LevelOf(override))))

\* C9 as claimed: an invalid enforcement level raises no error and is never
\* the enforcement level of a returned policy.
C9_InvalidLevelNeverResolved ==
    call.op = "getPolicies"
    => /\ call.threw = NoError
       /\ \A i \in 1..Len(call.result) : call.result[i].enforcementLevel # Str("bogus")

\* C13: an `all` that is falsy (undefined, null, false, "") resolves as an
\* `all` of the default level does: the result is that of the same args with
\* `all` set to the default level, and every registered rule the args do not
\* name is in the result once, at the default level.
C13_FalsyAllIsDefault ==
    (/\ call.op = "getPolicies"
     /\ call.args.t = "object"
     /\ HasOwnProperty(call.args.entries, "all")
     /\ ~Truthy(Get(call.args.entries, "all")))
    => /\ call.result = getPolicies(factoryMap,
                            Obj(Put(call.args.entries, "all", defaultEnforcementLevel)))
       /\ \A R \in KeySet(factoryMap) \ KeySet(call.args.entries) :
            /\ Cardinality(PlacesOf(call.result, R)) = 1
            /\ \A i \in PlacesOf(call.result, R) :
                    call.result[i].enforcementLevel = defaultEnforcementLevel

\* C13 witness: { all: false, ec2VolumeInUse: "advisory" } was resolved with
\* both rules registered; the rule not named came out at the default level.
C13_Witness ==
    /\ call.op = "getPolicies"
    /\ call.args = Obj(<<Prop("all", Bool(FALSE)), Prop("ec2VolumeInUse", Str("advisory"))>>)
    /\ Len(factoryMap) = 2
    /\ Len(call.result) = 2
    /\ call.result[1].enforcementLevel = defaultEnforcementLevel
    /\ call.result[2].enforcementLevel = Str("advisory")

(***************************************************************************)
(* Properties of the registration table and of the constructor (Spec).     *)
(***************************************************************************)
\* C1: a registerPolicy call whose id is 'all' or is already in the table
\* throws, and leaves the table as it was (the earlier entry is kept).
C1_RejectedRegistrationLeavesTable ==
    [][(/\ call'.op = "registerPolicy"
        /\ \/ call'.property = "all"
           \/ HasOwnProperty(registeredPolicies, call'.property))
       => (/\ call'.threw # NoError
           /\ registeredPolicies' = registeredPolicies)]_vars

\* C1 witness: a second registration under a registered id, with another policy, was refused.
C1_Witness ==
    /\ call.op = "registerPolicy"
    /\ HasOwnProperty(registeredPolicies, call.property)
    /\ Truthy(call.policy)
    /\ call.policy # Get(registeredPolicies, call.property)
    /\ call.threw # NoError

\* C2 as claimed: registerPolicy with the empty id throws and adds no entry.
C2_EmptyIdRejected ==
    /\ (call.op = "registerPolicy" /\ call.property = "") => call.threw # NoError
    /\ ~HasOwnProperty(registeredPolicies, "")

\* C2 as amended: the empty id is registered like any other id; the call throws
\* only when an entry under "" exists already or the policy is falsy, and
\* otherwise adds the policy under "".
C2_EmptyIdRegistered ==
    [][(call'.op = "registerPolicy" /\ call'.property = "")
       => IF HasOwnProperty(registeredPolicies, "") \/ ~Truthy(call'.policy)
          THEN /\ call'.threw # NoError
               /\ registeredPolicies' = registeredPolicies
          ELSE /\ call'.threw = NoError
               /\ registeredPolicies' = Append(registeredPolicies, Prop("", call'.policy))]_vars

\* C2 witness: a registration under the empty id succeeded.
C2_Witness ==
    /\ call.op = "registerPolicy"
    /\ call.property = ""
    /\ call.threw = NoError
    /\ Get(registeredPolicies, "") = call.policy

\* C3: every entry stays in the table with the policy it was registered with,
\* whatever is called next, and the table has one entry per successful registration.
C3_EntriesPersist ==
    /\ [](Len(registeredPolicies) = registrations)
    /\ [][\A i \in 1..Len(registeredPolicies) :
            /\ HasOwnProperty(registeredPolicies', registeredPolicies[i].key)
            /\ Get(registeredPolicies', registeredPolicies[i].key) = registeredPolicies[i].value]_vars

\* C3 witness: the pack was constructed after two registrations.
C3_Witness ==
    /\ call.op = "AwsGuard"
    /\ registrations = 2
    /\ Len(registeredPolicies) = 2

\* C10 as claimed: new AwsGuard(L) with a bare level L is new AwsGuard({ all: L }).
C10_BareLevelIsAll ==
    (/\ call.op = "AwsGuard"
     /\ isEnforcementLevel(call.nameOrArgs)
     /\ call.args = Undefined)
    => call.result = AwsGuard(registeredPolicies, Obj(<<Prop("all", call.nameOrArgs)>>), Undefined)

\* C10 as amended: new AwsGuard(L) with a bare level L names the pack L and
\* passes no configuration, so every registered policy is in the pack under the
\* pack's default enforcement level, as for new AwsGuard().
C10_BareLevelIsName ==
    (/\ call.op = "AwsGuard"
     /\ isEnforcementLevel(call.nameOrArgs)
     /\ call.args = Undefined)
    => /\ call.result.name = call.nameOrArgs.v
       /\ call.result.initialConfig = Undefined
       /\ call.result.enforcementLevel = defaultEnforcementLevel
       /\ call.result.policies = [i \in 1..Len(registeredPolicies) |-> registeredPolicies[i].value]

\* C10 witness: the pack was constructed from the bare level "disabled" with a rule registered.
C10_Witness ==
    /\ call.op = "AwsGuard"
    /\ call.nameOrArgs = Str("disabled")
    /\ call.args = Undefined
    /\ Len(registeredPolicies) >= 1

\* The policies of the table in ascending order of their ids.
PoliciesById(table) ==
    LET ks == sortedKeys(table) IN [i \in 1..Len(ks) |-> Get(table, ks[i])]

\* C11 as claimed: the policies the constructor hands to the pack are in
\* ascending order of rule id, whatever the order of the registrations.
C11_PoliciesSortedById ==
    call.op = "AwsGuard" => call.result.policies = PoliciesById(registeredPolicies)

\* The names of the policies of a list are pairwise different.
DistinctNames(policies) ==
    \A i, j \in 1..Len(policies) : policies[i].name = policies[j].name => i = j

\* The rules an args object configures: its keys that are registered and whose value is truthy.
ConfiguredRules(table, args) ==
    {k \in KeySet(args.entries) \cap KeySet(table) : Truthy(Get(args.entries, k))}

\* C12 as claimed: no two policies of the pack share a name, and the initial
\* configuration has one entry for each rule the args configure.
C12_NamesUniqueConfigSeparate ==
    /\ call.op = "AwsGuard" => DistinctNames(call.result.policies)
    /\ (call.op = "getInitialConfig" /\ call.args.t = "object")
       => Cardinality(KeySet(call.result.entries) \ {"all"})
            = Cardinality(ConfiguredRules(registeredPolicies, call.args))

(***************************************************************************)
(* Properties of the validation runner (SpecRunner).                       *)
(***************************************************************************)
\* The violations a list of steps reports when all of it runs.
RECURSIVE reportedBy(_)
reportedBy(steps) ==
    IF steps = <<>> THEN <<>>
    ELSE (IF Head(steps).step = "report"
          THEN <<[message |-> Head(steps).message, urn |-> Head(steps).urn]>>
          ELSE <<>>) \o reportedBy(Tail(steps))

\* The steps a validation of a resource policy runs for args.
stepsFor(validation, args) ==
    IF validation.wrapper = "validateResourceOfType" /\ ~isType(args, validation.declared)
    THEN <<>>
    ELSE bodySteps(validation.body, args.props, args, <<>>)

\* The violations of the validations from the i-th on, in list order.
RECURSIVE reportedFrom(_, _, _)
reportedFrom(validations, i, args) ==
    IF i > Len(validations) THEN <<>>
    ELSE reportedBy(stepsFor(validations[i], args)) \o reportedFrom(validations, i + 1, args)

\* runResourcePolicy runs a policy all of whose validations are functions.
RunsCallbacks ==
    /\ runner.pc # "idle"
    /\ runner.fn = "runResourcePolicy"
    /\ \A i \in 1..Len(runner.validations) : runner.validations[i] # Undefined

\* C17: the runner calls the validations c1..cn of a policy in list order,
\* calls none while the promise of the one before is pending, and returns
\* the violations reported by c1, then c2, ... then cn, each as reported,
\* none dropped and none twice.
C17_InOrderOneAtATime ==
    RunsCallbacks
    => /\ \A k \in 1..Len(frames) : frames[k].callback = k
       /\ \A k \in 1..Len(frames) : k < Len(frames) => frames[k].status # "pending"
       /\ runner.pc = "returned"
            => /\ Len(frames) = Len(runner.validations)
               /\ runner.result = reportedFrom(runner.validations, 1, runner.args)

\* C17 witness: the runner returned the violations of two validations, the
\* first of which reported before and after an await.
C17_Witness ==
    /\ RunsCallbacks
    /\ runner.pc = "returned"
    /\ Len(runner.validations) = 2
    /\ runner.validations[1].body.steps
            = <<Report("f1", Str("urn:f")), AwaitCall, Report("f2", Undefined), AwaitCall>>
    /\ runner.result = <<[message |-> "f1", urn |-> Str("urn:f")],
                         [message |-> "f2", urn |-> Undefined],
                         [message |-> "a1", urn |-> Undefined],
                         [message |-> "a2", urn |-> Str("urn:a")]>>

\* The call of the k-th validation threw, or the promise it returned is rejected.
Failed(k) ==
    \/ frames[k].status = "threw"
    \/ /\ frames[k].status = "rejected"
       /\ runner.validations[frames[k].callback].wrapper # "validateTypedResources"

\* C18: once a validation ci has thrown or the promise it returned is
\* rejected, the runner is rejected with that error, or awaits that promise
\* and will be; it calls no validation after ci and returns no violations.
C18_ErrorRejectsRunner ==
    runner.pc # "idle"
    => \A k \in 1..Len(frames) :
        Failed(k)
        => /\ k = Len(frames)
           /\ runner.result = Undefined
           /\ \/ runner.pc = "rejected" /\ runner.error = frames[k].error
              \/ runner.pc = "awaiting" /\ runner.awaits = k

\* C18 witness: the AWS call of the first of two validations failed and the
\* runner is rejected with that error, the second validation not called.
C18_Witness ==
    /\ runner.pc = "rejected"
    /\ runner.fn = "runResourcePolicy"
    /\ Len(runner.validations) = 2
    /\ runner.validations[2] # Undefined
    /\ Len(frames) = 1
    /\ frames[1].status = "rejected"
    /\ runner.error = "AWS call failed"
    /\ violations # <<>>

\* C19 as claimed: when runStackPolicy has returned for a policy built with
\* validateTypedResources, the body of the validation has run to its end,
\* and an error raised in the body rejects the runner.
C19_StackBodyAwaited ==
    (/\ runner.pc # "idle"
     /\ runner.fn = "runStackPolicy"
     /\ runner.validations[1].wrapper = "validateTypedResources")
    => /\ runner.pc = "returned" => \A k \in 1..Len(frames) : frames[k].status = "fulfilled"
       /\ \A k \in 1..Len(frames) :
            frames[k].status = "rejected" => runner.pc \in {"awaiting", "rejected"}

\* The classes the validations of a policy are declared for.
DeclaredClasses(validations) == {validations[i].declared : i \in 1..Len(validations)}

\* C20 as claimed: of the validations of elbAccessLoggingEnabled only the
\* bodies declared for the subject's type run; a subject of no declared type
\* gets no violation, and a load balancer of a declared type without access
\* logs enabled gets exactly one.
C20_OnlyDeclaredTypeRuns ==
    (runner.pc = "returned" /\ runner.policy = elbAccessLoggingEnabled)
    => /\ \A k \in 1..Len(frames) :
            frames[k].status # "notCalled"
            => runner.validations[frames[k].callback].declared = runner.args.type
       /\ runner.args.type \notin DeclaredClasses(runner.validations)
            => runner.result = <<>>
       /\ (/\ runner.args.type \in DeclaredClasses(runner.validations)
           /\ accessLogsSteps(runner.args.props) # <<>>)
            => Len(runner.result) = 1

(***************************************************************************)
(* Properties of the stack-level conflict rules (SpecRunner).              *)
(***************************************************************************)
\* The runner has returned from a run of the policy.
ReturnedFrom(policy) ==
    /\ runner.pc = "returned"
    /\ runner.policy = policy

\* The runner has returned from a run of the policy on a stack of two resources.
ReturnedFromPair(policy) ==
    /\ runner.pc = "returned"
    /\ runner.policy = policy
    /\ Len(runner.args.resources) = 2

\* The inline lists a resource declares: those that hold something.
InlineLists(resource) ==
    IF ~Truthy(resource.props) THEN {}
    ELSE CASE resource.type = SecurityGroupClass ->
                {d \in {"ingress", "egress"} :
                    nonEmpty(IF d = "ingress" THEN resource.props.ingress
                             ELSE resource.props.egress)}
           [] resource.type = RoleClass ->
                {d \in {"managedPolicyArns", "inlinePolicies"} :
                    nonEmpty(IF d = "managedPolicyArns" THEN resource.props.managedPolicyArns
                             ELSE resource.props.inlinePolicies)}
           [] OTHER -> {}

\* The property of a rule or an attachment that names the group or the role
\* it manages.
ManagedProperty(resource) ==
    IF ruleCurrentType(resource) # "none" THEN "securityGroupId" ELSE roleProp(resource)

\* second is declared on its own and depends, through the property that
\* names what it manages, on first.
DeclaredOn(first, second) ==
    /\ ruleCurrentType(second) # "none" \/ attachmentCurrentType(second) # "none"
    /\ HasOwnProperty(second.propertyDependencies, ManagedProperty(second))
    /\ \E j \in 1..Len(Get(second.propertyDependencies, ManagedProperty(second))) :
            Get(second.propertyDependencies, ManagedProperty(second))[j] = first

\* The inline lists of first that second manages too: for a rule of a
\* security group the list of the rule's direction, for an attachment both
\* lists of the role.
ManagedLists(first, second) ==
    IF ruleCurrentType(second) # "none"
    THEN {d \in InlineLists(first) : Str(d) = ruleDirection(second)}
    ELSE InlineLists(first)

\* C21 as stated: a conflict rule run on two resources, the first declaring
\* inline rules or policies, reports exactly one violation when the second is
\* a rule or an attachment that depends on the first, and none when the
\* second declares no dependency.
C21_OneViolationPerConflict ==
    \A policy \in {securityGroupNoRuleManagementConflicts, iamRoleNoPolicyManagementConflicts} :
        ReturnedFromPair(policy) =>
            LET first == runner.args.resources[1]
                second == runner.args.resources[2]
            IN  InlineLists(first) # {} =>
                    /\ DeclaredOn(first, second) => Len(runner.result) = 1
                    /\ second.propertyDependencies = <<>> => Len(runner.result) = 0

\* C21, amended: the rule reports one violation for each inline list of the
\* first resource that the second manages too (the list of the rule's own
\* direction for a security group, each of managedPolicyArns and
\* inlinePolicies for a role), each attributed to the second resource and
\* naming the first, when the second depends on the first through the
\* property that names the group or the role; it reports none otherwise.
C21_OneViolationPerManagedList ==
    \A policy \in {securityGroupNoRuleManagementConflicts, iamRoleNoPolicyManagementConflicts} :
        ReturnedFromPair(policy) =>
            LET first == runner.args.resources[1]
                second == runner.args.resources[2]
                isRule == policy = securityGroupNoRuleManagementConflicts
                subject == IF isRule THEN ruleCurrentType(second) # "none"
                           ELSE attachmentCurrentType(second) # "none"
            IN  IF subject /\ DeclaredOn(first, second)
                THEN /\ Len(runner.result) = Cardinality(ManagedLists(first, second))
                     /\ \A k \in 1..Len(runner.result) :
                            /\ runner.result[k].urn = second.urn
                            /\ IF isRule
                               THEN /\ runner.result[k].message.name = second.name
                                    /\ runner.result[k].message.group = first.name
                                    /\ runner.result[k].message.inline \in ManagedLists(first, second)
                               ELSE /\ runner.result[k].message.role = first.urn
                                    /\ runner.result[k].message.defines \in ManagedLists(first, second)
                ELSE Len(runner.result) = 0

\* A role with managed policies and an attachment that depends on it through
\* `role`: one violation; and the same without the dependency: none.
C21_Witness ==
    /\ ReturnedFromPair(iamRoleNoPolicyManagementConflicts)
    /\ runner.args.resources[2].type = RolePolicyAttachmentClass
    /\ DeclaredOn(runner.args.resources[1], runner.args.resources[2])
    /\ InlineLists(runner.args.resources[1]) = {"managedPolicyArns"}
    /\ Len(runner.result) = 1
    /\ runner.result[1].urn = Str("test-attachment")

\* The direction of a rule declared on its own: ingress for a
\* SecurityGroupIngressRule, egress for a SecurityGroupEgressRule, props.type
\* for a SecurityGroupRule.
OwnDirection(r) ==
    CASE r.type = SecurityGroupIngressRuleClass -> "ingress"
      [] r.type = SecurityGroupEgressRuleClass -> "egress"
      [] OTHER -> IF r.props.type \in {Str("ingress"), Str("egress")} THEN r.props.type.v
                  ELSE "none"

\* The group declares, in line, rules of the direction.
HasInline(g, direction) ==
    IF ~Truthy(g.props) THEN FALSE
    ELSE CASE direction = "ingress" -> nonEmpty(g.props.ingress)
           [] direction = "egress" -> nonEmpty(g.props.egress)
           [] OTHER -> FALSE

\* The rule resources of a stack, as their indices.
RulesOf(resources) == {i \in 1..Len(resources) : ruleCurrentType(resources[i]) # "none"}

\* C25: securityGroupNoRuleManagementConflicts reports a violation for a rule
\* r and a resource g of r.propertyDependencies["securityGroupId"] if and only
\* if g is a SecurityGroup whose inline list of r's own direction is not
\* empty; every violation is attributed to the urn of a rule and names the
\* direction of that rule.
C25_ConflictIffOwnDirectionInline ==
    ReturnedFrom(securityGroupNoRuleManagementConflicts) =>
        LET resources == runner.args.resources
            reported(r, g) == {k \in 1..Len(runner.result) :
                                /\ runner.result[k].urn = r.urn
                                /\ runner.result[k].message.name = r.name
                                /\ runner.result[k].message.group = g.name}
            groupsOf(r) == IF HasOwnProperty(r.propertyDependencies, "securityGroupId")
                           THEN Get(r.propertyDependencies, "securityGroupId") ELSE <<>>
        IN  /\ \A i \in RulesOf(resources) :
                \A j \in 1..Len(groupsOf(resources[i])) :
                    LET r == resources[i]
                        g == groupsOf(r)[j]
                    IN  /\ reported(r, g) # {}
                            <=> g.type = SecurityGroupClass /\ HasInline(g, OwnDirection(r))
                        /\ \A k \in reported(r, g) :
                            runner.result[k].message.inline = OwnDirection(r)
            /\ \A k \in 1..Len(runner.result) :
                \E i \in RulesOf(resources) : runner.result[k].urn = resources[i].urn

\* A group with inline rules of both directions and a rule of each direction
\* on it: two violations, one under the urn of each rule, for its direction.
C25_Witness ==
    /\ ReturnedFrom(securityGroupNoRuleManagementConflicts)
    /\ Len(runner.args.resources) = 3
    /\ Len(runner.result) = 2
    /\ runner.result[1].urn = Str("test-sg-ingress-rule")
    /\ runner.result[1].message.inline = "ingress"
    /\ runner.result[2].urn = Str("test-sg-egress-rule")
    /\ runner.result[2].message.inline = "egress"

(***************************************************************************)
(* Properties of ec2VolumeInUse and rdsInstanceBackupEnabled (SpecRunner). *)
(***************************************************************************)

\* The texts of the violations returned.
ReturnedTexts == {runner.result[k].message.text : k \in 1..Len(runner.result)}

\* C22: ec2VolumeInUse on an instance without volumes reports "must have an
\* EBS volume attached"; on an instance with volumes it reports nothing when
\* checkDeletion is false and, when checkDeletion is true, exactly one
\* violation for each volume whose deleteOnTermination is undefined or false.
C22_VolumeInUse ==
    ReturnedFrom(ec2VolumeInUseRule) =>
        LET instance == runner.args.props
            checkDeletion == Get(getConfig(runner.args).entries, "checkDeletion")
            vols == IF instance.ebsBlockDevices = Undefined THEN <<>>
                    ELSE instance.ebsBlockDevices.items
            unmarked == {j \in 1..Len(vols) :
                            vols[j].deleteOnTermination \in {Undefined, Bool(FALSE)}}
        IN  IF Len(vols) = 0
            THEN "EC2 instance must have an EBS volume attached." \in ReturnedTexts
            ELSE /\ checkDeletion = Bool(FALSE) => runner.result = <<>>
                 /\ checkDeletion = Bool(TRUE) =>
                        /\ Len(runner.result) = Cardinality(unmarked)
                        /\ ReturnedTexts \subseteq {"must be marked for termination on delete."}
                        /\ \A j \in unmarked :
                            Cardinality({k \in 1..Len(runner.result) :
                                runner.result[k].message.volumeId = vols[j].volumeId}) = 1

\* Two volumes, the first with deleteOnTermination undefined and the second
\* marked, under the default config: one violation, for the first.
C22_Witness ==
    /\ ReturnedFrom(ec2VolumeInUseRule)
    /\ getConfig(runner.args) = applyDefaults(ec2VolumeInUseRule.configSchema, Obj(<<>>))
    /\ runner.args.props.ebsBlockDevices =
            Arr(<<[volumeId |-> Str("vol-1"), deleteOnTermination |-> Undefined],
                  [volumeId |-> Str("vol-2"), deleteOnTermination |-> Bool(TRUE)]>>)
    /\ Len(runner.result) = 1
    /\ runner.result[1].message.volumeId = Str("vol-1")

\* C23: with the declared defaults as its config, rdsInstanceBackupEnabled
\* reports nothing for an instance whose backupRetentionPeriod is not given
\* or is not 0, and reports "must have backups enabled" for one whose
\* backupRetentionPeriod is 0.
C23_DefaultsCheckBackupsOnly ==
    /\ ReturnedFrom(rdsInstanceBackupEnabled)
    /\ getConfig(runner.args) = applyDefaults(rdsInstanceBackupEnabled.configSchema, Obj(<<>>))
    => IF runner.args.props.backupRetentionPeriod = Num(0)
       THEN "RDS Instances must have backups enabled." \in ReturnedTexts
       ELSE runner.result = <<>>

(***************************************************************************)
(* Properties of getInitialConfig (Spec).                                  *)
(***************************************************************************)
\* C24: getInitialConfig returns undefined exactly when args is falsy;
\* otherwise its result has `all` equal to args.all when that is truthy, has
\* under the name of the policy of every registered key of args with a truthy
\* value that value, and has no falsy value.
C24_InitialConfigPerKey ==
    call.op = "getInitialConfig" =>
        /\ call.result = Undefined <=> ~Truthy(call.args)
        /\ Truthy(call.args) =>
            /\ Truthy(Get(call.args.entries, "all")) =>
                    Get(call.result.entries, "all") = Get(call.args.entries, "all")
            /\ \A k \in KeySet(call.args.entries) \ {"all"} :
                    /\ HasOwnProperty(registeredPolicies, k)
                    /\ Truthy(Get(call.args.entries, k))
                    => Get(call.result.entries, Get(registeredPolicies, k).name)
                            = Get(call.args.entries, k)
            /\ \A i \in 1..Len(call.result.entries) : Truthy(call.result.entries[i].value)

(***************************************************************************)
(* Properties of iamAccessKeysRotated's paging (SpecRunner).               *)
(***************************************************************************)
\* The access key has an id and is active.
ActiveKey(resource) ==
    /\ resource.type = AccessKeyClass
    /\ Truthy(resource.props.id)
    /\ resource.props.status = Str("Active")

\* The responses the body has received: all its calls but one it still awaits
\* or one that failed.
Answered(frame) ==
    IF frame.status \in {"pending", "rejected"} THEN Len(frame.calls) - 1 ELSE Len(frame.calls)

\* The keys of the first n pages that are the access key and are older than maxKeyAge.
Unrotated(pages, n, key, maxKeyAge) ==
    {<<m, i>> \in (1..n) \X (1..1) :
        /\ i <= Len(pages[m].AccessKeyMetadata)
        /\ pages[m].AccessKeyMetadata[i].AccessKeyId = key.props.id
        /\ pages[m].AccessKeyMetadata[i].daysSinceCreated > maxKeyAge}

\* C26: for an access key that has an id and is active, iamAccessKeysRotated
\* calls listAccessKeys, the first time without a Marker and each time after
\* with the Marker of the response before, only as long as the response before
\* is truncated; it is done with the first response that is not truncated, and
\* has reported the unrotated keys of every page it received.  For a key
\* without an id or not active it makes no call and reports nothing.
C26_PagesFollowedByMarker ==
    runner.pc # "idle" /\ runner.policy = iamAccessKeysRotated(30) =>
        LET key == runner.args.resources[1]
            pages == runner.aws
            frame == frames[1]
            n == Len(frame.calls)
        IN  IF ~ActiveKey(key)
            THEN frame.calls = <<>> /\ violations = <<>>
            ELSE /\ n >= 1
                 /\ \A m \in 1..n :
                        /\ frame.calls[m].call = "listAccessKeys"
                        /\ frame.calls[m].params.Marker =
                                IF m = 1 THEN Undefined ELSE pages[m - 1].Marker
                 /\ \A m \in 1..(n - 1) : pages[m].IsTruncated
                 /\ frame.status = "fulfilled" => ~pages[n].IsTruncated
                 /\ frame.status = "pending" =>
                        \A m \in 1..Answered(frame) : pages[m].IsTruncated
                 /\ Len(violations) = Cardinality(Unrotated(pages, Answered(frame), key, 30))

\* Three pages were asked for, the second with the Marker of the first and
\* the third with the Marker of the second; the third is not truncated, the
\* body is done, the fourth page was never asked for, and the old key of the
\* first and of the third page is reported.
C26_Witness ==
    /\ runner.pc # "idle"
    /\ runner.policy = iamAccessKeysRotated(30)
    /\ Len(runner.aws) = 4
    /\ frames[1].status = "fulfilled"
    /\ Len(frames[1].calls) = 3
    /\ frames[1].calls[2].params.Marker = Str("timeCalled-1")
    /\ frames[1].calls[3].params.Marker = Str("timeCalled-2")
    /\ Len(violations) = 2

(***************************************************************************)
(* Properties of getPolicies over the factories that check their argument  *)
(* bag (SpecFactoryArgs).                                                  *)
(***************************************************************************)
\* The args the caller gave name no truthy `all`, and are not empty.
AllMissing(args) ==
    IF ~Truthy(args) THEN FALSE
    ELSE Len(args.entries) > 0 /\ ~Truthy(Get(args.entries, "all"))

RejectedBy(key, override) ==
    IF override.t # "object" THEN FALSE
    ELSE CASE key = "iamAccessKeysRotated" ->
                /\ HasOwnProperty(override.entries, "maxKeyAge")
                /\ \/ Get(override.entries, "maxKeyAge").n < 1
                   \/ Get(override.entries, "maxKeyAge").n > 730
           [] key = "rdsInstanceBackupEnabled" ->
                /\ HasOwnProperty(override.entries, "backupRetentionPeriod")
                /\ Get(override.entries, "backupRetentionPeriod").n <= 0
           [] OTHER -> FALSE

\* The effective override of a key: its own truthy property, else `all`.
EffectiveOverride(a, key) ==
    IF HasOwnProperty(a.entries, key) /\ Truthy(Get(a.entries, key))
    THEN Get(a.entries, key)
    ELSE Get(a.entries, "all")

\* C30: getPolicies calls the factory of no key twice, and of no key whose
\* effective override is "disabled"; it calls, in the order of the keys, the
\* factories of the other keys up to the first that throws; it throws, and
\* returns no list, exactly when a factory it called throws, also when the
\* override that makes the factory throw sets enforcementLevel to "disabled".
C30_FactoriesCalledOnceThrowsPropagate ==
    call.op = "getPolicies" =>
        LET keys == sortedKeys(factoryMap)
            live == SelectSeq(keys,
                        LAMBDA k : EffectiveOverride(call.effective, k) # Str("disabled"))
            bad == {i \in 1..Len(live) : RejectedBy(live[i], EffectiveOverride(call.effective, live[i]))}
            first == CHOOSE i \in bad : \A j \in bad : i <= j
        IN  /\ \A i, j \in 1..Len(call.invoked) : call.invoked[i] = call.invoked[j] => i = j
            /\ \A i \in 1..Len(call.invoked) :
                    EffectiveOverride(call.effective, call.invoked[i]) # Str("disabled")
            /\ IF bad = {}
               THEN /\ call.threw = NoError
                    /\ call.invoked = live
                    /\ Len(call.result) <= Len(live)
               ELSE /\ call.threw # NoError
                    /\ call.result = Undefined
                    /\ call.invoked = SubSeq(live, 1, first)

\* ec2VolumeInUse and iamAccessKeysRotated are registered, and
\* iamAccessKeysRotated is given { maxKeyAge: 0, enforcementLevel: "disabled" }:
\* both factories were called, the second threw, and so did getPolicies.
C30_Witness ==
    /\ call.op = "getPolicies"
    /\ Truthy(call.args)
    /\ Get(call.args.entries, "iamAccessKeysRotated")
            = Obj(<<Prop("maxKeyAge", Num(0)), Prop("enforcementLevel", Str("disabled"))>>)
    /\ call.invoked = <<"ec2VolumeInUse", "iamAccessKeysRotated">>
    /\ call.threw = "Invalid maxKeyAge."
    /\ call.result = Undefined

(***************************************************************************)
(* Properties of getPolicies on configuration objects (SpecFactories).     *)
(***************************************************************************)
\* The override is a configuration object with no enforcementLevel.
LevelLessObject(override) ==
    IF override.t # "object" THEN FALSE
    ELSE ~HasOwnProperty(override.entries, "enforcementLevel")

\* C28: a registered rule whose override in args is a configuration object
\* with no enforcementLevel is in the list getPolicies returns, at the
\* default enforcement level, whatever args.all is.
C28_ConfigObjectAtDefaultLevel ==
    (call.op = "getPolicies" /\ Truthy(call.args)) =>
        \A R \in KeySet(factoryMap) :
            LevelLessObject(Get(call.args.entries, R)) =>
                /\ PlacesOf(call.result, R) # {}
                /\ \A i \in PlacesOf(call.result, R) :
                        call.result[i].enforcementLevel = defaultEnforcementLevel

(***************************************************************************)
(* Properties of getInitialConfig on unknown keys (Spec).                  *)
(***************************************************************************)
\* The names of the registered policies.
RegisteredNames == {registeredPolicies[i].value.name : i \in 1..Len(registeredPolicies)}

\* The args without the keys that are neither "all" nor registered.
KnownOnly(args) ==
    Obj(SelectSeq(args.entries,
            LAMBDA e : e.key = "all" \/ HasOwnProperty(registeredPolicies, e.key)))

\* C29: getInitialConfig raises no error, every key of its result is "all"
\* or the name of a registered policy, and its result is the one it has for
\* the args without the keys that name no registered rule.
C29_UnknownKeysIgnored ==
    (call.op = "getInitialConfig" /\ Truthy(call.args)) =>
        /\ call.threw = NoError
        /\ \A k \in KeySet(call.result.entries) : k = "all" \/ k \in RegisteredNames
        /\ call.result = getInitialConfig(registeredPolicies, KnownOnly(call.args))
====
